---- MODULE Spec2Model ----
(***************************************************************************)
(* A model of the FinancialQA RAG service: the metrics history store       *)
(* (app/utils/metrics_storage.py), the metrics tracker                      *)
(* (app/utils/metrics.py), the hybrid retriever (app/rag/retrieval.py) and  *)
(* the engine that drives them (app/rag/engine.py).                         *)
(*                                                                          *)
(* Numbers.  Python floats are modelled in fixed point: a score, a metric   *)
(* or a mean is an integer number of thousandths (Scale = 1000 stands for   *)
(* 1.0), and a division is the floor of the scaled quotient.  Timestamps    *)
(* (datetime.now()) are modelled by a logical clock that ticks once per     *)
(* stamped history entry; the timestamp built by a call that appends        *)
(* nothing is dropped by the code unobserved.                               *)
(*                                                                          *)
(* Environment.  The specifications below assume that the metrics file can  *)
(* be read and written (MetricsStorage._load_metrics and _save_metrics do   *)
(* not take their except branches).                                         *)
(***************************************************************************)
EXTENDS Integers, Sequences, FiniteSets, TLC

VARIABLES
    file,          \* MetricsStorage: the content of metrics.json
    clock,         \* logical time: the number of history entries stamped so far
    appended,      \* history variable: every entry ever appended, in order
    arg,           \* SpecStore: the new_metrics of the most recent call
    calls,         \* SpecStore: the number of update_metrics calls made so far
    tracker,       \* MetricsTracker.metrics: the metric lists and the counters
    r_in,          \* calculate_retrieval_metrics: the arguments of the call
    r_out,         \* calculate_retrieval_metrics: the dictionary returned
    r_pc,          \* "call" before the call, "done" after it, "idle" otherwise
    conversation_cache, \* EnhancedRetriever.conversation_cache: the cached chunk ids
    s_in,          \* hybrid_search: semantic results, query entities and k
    s_ranked,      \* the ranked results (_hybrid_rank's, or the grouping's input)
    s_out,         \* the list returned by _group_and_contextualize
    s_pc,          \* "rank", "group", "done", or "idle"
    conversation_memories, \* RAGEngine: conversation id -> conversation data
    inflight,      \* the process_question calls suspended at the awaited
                   \* answer generation, oldest first
    started,       \* the number of process_question calls started so far
    last_returned, \* << >>, or <<the aggregate most recently returned>>
    snapshots,     \* history variable: the per-turn metrics of every
                   \* process_question call that returned, in order of return
    last_response, \* << >>, or <<the response to the process_question call
                   \* that ended most recently: its HTTP status and the
                   \* collaborator that failed while it was served>>
    h_in,          \* a call of one helper method on its own: the arguments
    h_out,         \* the value the helper returns
    h_pc           \* "call" before the call, "done" after it, "idle" otherwise

storeVars == <<file, clock, appended, arg, calls>>

retrievalVars == <<tracker, r_in, r_out, r_pc>>

searchVars == <<conversation_cache, s_in, s_ranked, s_out, s_pc>>

engineVars ==
    <<conversation_memories, inflight, started, last_returned, snapshots,
      last_response>>

helperVars == <<h_in, h_out, h_pc>>

vars == <<file, clock, appended, arg, calls, tracker, r_in, r_out, r_pc,
          conversation_cache, s_in, s_ranked, s_out, s_pc,
          conversation_memories, inflight, started, last_returned, snapshots,
          last_response, h_in, h_out, h_pc>>

(***************************************************************************)
(* Bounds of the model and constants of the program.                        *)
(***************************************************************************)
\* Fixed point: the integer that stands for 1.0.
Scale == 1000

\* metrics_storage.py:148  metrics_history[-100:]
HistoryCap == 100

\* The store specification stops after this many update_metrics calls.
MaxCalls == 104

\* calculate_retrieval_metrics is called with at most this many results ...
MaxRetrieved == 3

\* ... and at most this many relevant ids.
MaxRelevant == 2

\* hybrid_search is called with k in 1..MaxK (the vector search returns at
\* most 2k candidates).
MaxK == 2

\* _group_and_contextualize is called directly with at most this many results.
MaxGrouped == 3

\* The number and term lists of a scored document hold at most this many
\* entries.
MaxEntities == 2

\* The chat history handed to _enhance_query holds at most this many
\* messages.
MaxHistory == 3

\* The chat history of a turn scored for context retention holds at most
\* this many messages.
MaxTurnHistory == 4

\* The vector search of an evaluated turn returns at most this many
\* candidates.
MaxResults == 4

\* The texts searched for entities hold at most this many words.
MaxWords == 3

\* The texts of the answer metrics hold at most this many characters.
MaxText == 2

\* The engine specification starts at most this many process_question calls
MaxTurns == 3

\* ... of which at most this many are suspended at the same time.
MaxInflight == 2

(***************************************************************************)
(* Sequence helpers (Python list operations).                               *)
(***************************************************************************)
\* s[-n:] : the last n elements of s (all of s when it has fewer).
LastN(s, n) ==
    IF Len(s) <= n THEN s ELSE SubSeq(s, Len(s) - n + 1, Len(s))

\* s[:n] : the first n elements of s (all of s when it has fewer).
FirstN(s, n) ==
    IF Len(s) <= n THEN s ELSE SubSeq(s, 1, n)

(***************************************************************************)
(* MetricsStorage                                                           *)
(***************************************************************************)
\* The aggregate written by _reset_metrics: every mean 0.0, every counter 0.
InitialAggregate ==
    [ answer_accuracy       |-> 0, exact_match_rate   |-> 0,
      cosine_similarity     |-> 0, rouge1             |-> 0,
      rouge2                |-> 0, rougeL             |-> 0,
      retrieval_precision   |-> 0, retrieval_recall   |-> 0,
      f1_score              |-> 0, ndcg               |-> 0,
      mrr                   |-> 0, response_latency   |-> 0,
      context_retention     |-> 0, total_questions    |-> 0,
      successful_retrievals |-> 0, total_conversations |-> 0,
      total_tokens          |-> 0 ]

\* _reset_metrics: the file after construction of the store.
reset_metrics ==
    [ metrics_history |-> << >>, aggregate_metrics |-> InitialAggregate ]

\* {"timestamp": now, **new_metrics}
metrics_with_timestamp(new_metrics, now) ==
    [ timestamp |-> now, metrics |-> new_metrics ]

\* The condition of update_metrics under which the call appends and saves.
metrics_changed_ignoring_empty_history(metrics_data, new_metrics) ==
    new_metrics # metrics_data.aggregate_metrics

metrics_changed(metrics_data, new_metrics) ==
    \/ metrics_data.metrics_history = << >>
    \/ new_metrics # metrics_data.aggregate_metrics

\* metrics_history[-100:]
truncate_keeping_oldest(history) == FirstN(history, HistoryCap)

truncate_history(history) == LastN(history, HistoryCap)

\* The aggregate slot left as it was loaded.
loaded_aggregate_slot(metrics_data, new_metrics) ==
    metrics_data.aggregate_metrics

\* The aggregate slot after an append.
new_aggregate_slot(metrics_data, new_metrics) == new_metrics

\* update_metrics(new_metrics): the content of the file after the call, given
\* the content loaded at its start and the timestamp taken.
update_metrics(metrics_data, new_metrics, now) ==
    IF metrics_changed(metrics_data, new_metrics)
    THEN [ metrics_history |->
               truncate_history(Append(metrics_data.metrics_history,
                                       metrics_with_timestamp(new_metrics, now))),
           aggregate_metrics |-> new_aggregate_slot(metrics_data, new_metrics) ]
    ELSE metrics_data

\* Whether the call appended (and so took a timestamp that is kept).
update_appends(metrics_data, new_metrics) ==
    metrics_changed(metrics_data, new_metrics)


(***************************************************************************)
(* MetricsTracker                                                           *)
(***************************************************************************)
\* MetricsTracker.reset: empty metric lists, zero counters.
reset ==
    [ answer_accuracy       |-> << >>, exact_match       |-> << >>,
      cosine_similarity     |-> << >>, rouge1            |-> << >>,
      rouge2                |-> << >>, rougeL            |-> << >>,
      retrieval_precision   |-> << >>, retrieval_recall  |-> << >>,
      f1_score              |-> << >>, ndcg              |-> << >>,
      mrr                   |-> << >>, response_latency  |-> << >>,
      context_retention     |-> << >>, total_questions   |-> 0,
      successful_retrievals |-> 0,     total_tokens      |-> 0,
      total_conversations   |-> 0 ]

\* The relevance-admission threshold of calculate_retrieval_metrics: 0.5.
AdmissionThreshold == 500

\* The dictionary returned when either input is empty.
ZeroRetrievalMetrics ==
    [ precision |-> 0, recall |-> 0, f1 |-> 0, ndcg |-> 0, mrr |-> 0 ]

\* k: int = None is << >>; a given k is <<k>> (k >= 0).
NoK == << >>

\* retrieved_docs[:k]
slice_k(retrieved_docs, k) ==
    IF k = NoK THEN retrieved_docs ELSE FirstN(retrieved_docs, k[1])

\* if not retrieved_docs or not relevant_docs: return zeros
inputs_empty_retrieved_only(retrieved_docs, relevant_docs) ==
    retrieved_docs = << >>

inputs_empty(retrieved_docs, relevant_docs) ==
    retrieved_docs = << >> \/ relevant_docs = << >>

\* [doc_id for doc in docs if doc['score'] > 0.5], in order.
RECURSIVE admitted_ids(_)
admitted_ids(docs) ==
    IF docs = << >> THEN << >>
    ELSE LET rest == admitted_ids(Tail(docs))
         IN  IF Head(docs).score > AdmissionThreshold
             THEN <<Head(docs).doc_id>> \o rest
             ELSE rest

retrieved_ids(retrieved_docs, k) == admitted_ids(slice_k(retrieved_docs, k))

\* set(relevant_docs)
relevant_ids(relevant_docs) ==
    { relevant_docs[i] : i \in 1..Len(relevant_docs) }

\* 1 / log2(i + 2) for the 0-based position i, in units of 0.00001.
DiscountTable ==
    << 100000, 63093, 50000, 43068, 38685, 35621, 33333, 31546, 30103,
       28906 >>

discount(i) == DiscountTable[i + 1]

\* (2**rel - 1) / log2(i + 2)
gain(rel, i) == IF rel = 1 THEN discount(i) ELSE 0

\* dcg: the sum of the gains of ids[j..], the 0-based position of ids[j]
\* being j - 1.
RECURSIVE dcg_from(_, _, _)
dcg_from(ids, relevant, j) ==
    IF j > Len(ids) THEN 0
    ELSE gain(IF ids[j] \in relevant THEN 1 ELSE 0, j - 1)
         + dcg_from(ids, relevant, j + 1)

dcg_of(ids, relevant) == dcg_from(ids, relevant, 1)

\* idcg: n consecutive positions of relevance 1, from position 0.
RECURSIVE idcg_from(_, _)
idcg_from(n, j) ==
    IF j > n THEN 0 ELSE gain(1, j - 1) + idcg_from(n, j + 1)

idcg_of(relevant) == idcg_from(Cardinality(relevant), 1)

\* ndcg = dcg / idcg if idcg > 0 else 0
ndcg_ideal_over_retrieved(ids, relevant) ==
    IF idcg_from(Len(ids), 1) > 0
    THEN (dcg_of(ids, relevant) * Scale) \div idcg_from(Len(ids), 1)
    ELSE 0

ndcg_of(ids, relevant) ==
    IF idcg_of(relevant) > 0
    THEN (dcg_of(ids, relevant) * Scale) \div idcg_of(relevant)
    ELSE 0

\* The largest element of a non-empty set of integers.
MaxOf(S) == CHOOSE x \in S : \A y \in S : y <= x

MinOf(S) == CHOOSE x \in S : \A y \in S : x <= y

\* ranks: 1 / (i + 1) for every 0-based position i that holds a relevant id.
ranks_of(ids, relevant) ==
    { Scale \div j : j \in { i \in 1..Len(ids) : ids[i] \in relevant } }

\* mrr = max(ranks) if ranks else 0
mrr_worst_rank(ids, relevant) ==
    IF relevant # {} /\ ranks_of(ids, relevant) # {}
    THEN MinOf(ranks_of(ids, relevant))
    ELSE 0

mrr_of(ids, relevant) ==
    IF relevant # {} /\ ranks_of(ids, relevant) # {}
    THEN MaxOf(ranks_of(ids, relevant))
    ELSE 0

true_positives(ids, relevant) ==
    Cardinality({ ids[i] : i \in 1..Len(ids) } \cap relevant)

precision_of(ids, relevant) ==
    IF ids # << >> THEN (true_positives(ids, relevant) * Scale) \div Len(ids)
    ELSE 0

recall_of(ids, relevant) ==
    IF relevant # {}
    THEN (true_positives(ids, relevant) * Scale) \div Cardinality(relevant)
    ELSE 0

\* f1 = 2 * (precision * recall) / (precision + recall)
f1_of(precision, recall) ==
    IF precision + recall > 0
    THEN (2 * precision * recall) \div (precision + recall)
    ELSE 0

\* The five metrics of a call whose inputs are both non-empty.
computed_retrieval_metrics(retrieved_docs, relevant_docs, k) ==
    LET ids == retrieved_ids(retrieved_docs, k)
        rel == relevant_ids(relevant_docs)
    IN  [ precision |-> precision_of(ids, rel),
          recall    |-> recall_of(ids, rel),
          f1        |-> f1_of(precision_of(ids, rel), recall_of(ids, rel)),
          ndcg      |-> ndcg_of(ids, rel),
          mrr       |-> mrr_of(ids, rel) ]

\* calculate_retrieval_metrics: the dictionary returned.
retrieval_metrics(retrieved_docs, relevant_docs, k) ==
    IF inputs_empty(retrieved_docs, relevant_docs)
    THEN ZeroRetrievalMetrics
    ELSE computed_retrieval_metrics(retrieved_docs, relevant_docs, k)

\* calculate_retrieval_metrics: the tracker after the call.
tracker_after_retrieval(t, retrieved_docs, relevant_docs, k) ==
    IF inputs_empty(retrieved_docs, relevant_docs)
    THEN t
    ELSE LET m == computed_retrieval_metrics(retrieved_docs, relevant_docs, k)
         IN  [ t EXCEPT !.retrieval_precision = Append(@, m.precision),
                        !.retrieval_recall    = Append(@, m.recall),
                        !.f1_score            = Append(@, m.f1),
                        !.ndcg                = Append(@, m.ndcg),
                        !.mrr                 = Append(@, m.mrr) ]

\* The arguments of a call that has not been made.
NoCall == [ retrieved_docs |-> << >>, relevant_docs |-> << >>, k |-> NoK ]

(***************************************************************************)
(* EnhancedRetriever                                                        *)
(***************************************************************************)
\* The set of the elements of a list: set(list).
ToSet(s) == { s[i] : i \in 1..Len(s) }

\* list.sort(key, reverse=True): a stable sort by descending key.  The
\* element at position i moves behind every element with a larger key and
\* behind the earlier elements with an equal key.
SortedPosition(s, Key(_), i) ==
    1 + Cardinality({ j \in 1..Len(s) : Key(s[j]) > Key(s[i]) })
      + Cardinality({ j \in 1..(i - 1) : Key(s[j]) = Key(s[i]) })

StableSortDesc(s, Key(_)) ==
    [ p \in 1..Len(s) |->
        s[CHOOSE i \in 1..Len(s) : SortedPosition(s, Key, i) = p] ]

\* The number of entries of a list that are in the set.
CountIn(list, set) == Len(SelectSeq(list, LAMBDA x : x \in set))

\* The weights of _calculate_keyword_score: 0.5 per shared number or
\* percentage, 0.3 per shared financial term.
keyword_score_counting_entries(doc_entities, query_entities) ==
      CountIn(doc_entities.numbers, ToSet(query_entities.numbers)) * 500
    + CountIn(doc_entities.percentages, ToSet(query_entities.percentages)) * 500
    + CountIn(doc_entities.financial_terms,
              ToSet(query_entities.financial_terms)) * 300

calculate_keyword_score(doc_entities, query_entities) ==
      Cardinality(ToSet(doc_entities.numbers) \cap ToSet(query_entities.numbers)) * 500
    + Cardinality(ToSet(doc_entities.percentages)
                  \cap ToSet(query_entities.percentages)) * 500
    + Cardinality(ToSet(doc_entities.financial_terms)
                  \cap ToSet(query_entities.financial_terms)) * 300

\* (1 / (1 + semantic_score)) * (1 + keyword_score)
combined_score_distance_as_similarity(semantic_score, keyword_score) ==
    (semantic_score * (Scale + keyword_score)) \div Scale

combined_score(semantic_score, keyword_score) ==
    ((Scale + keyword_score) * Scale) \div (Scale + semantic_score)

\* The entry _hybrid_rank builds for one (doc, semantic_score) pair.
ranked_result(doc, semantic_score, query_entities) ==
    LET keyword_score ==
            calculate_keyword_score(doc.financial_entities, query_entities)
    IN  [ document       |-> doc,
          score          |-> combined_score(semantic_score, keyword_score),
          semantic_score |-> semantic_score,
          keyword_score  |-> keyword_score ]

ScoreKey(x) == x.score

\* The candidates scored and left in the order of the vector search.
hybrid_rank_unsorted(semantic_results, query_entities) ==
    [ i \in 1..Len(semantic_results) |->
        ranked_result(semantic_results[i].document,
                      semantic_results[i].semantic_score, query_entities) ]

\* _hybrid_rank: score every candidate, then sort by score, descending.
hybrid_rank(semantic_results, query_entities) ==
    StableSortDesc(
        [ i \in 1..Len(semantic_results) |->
            ranked_result(semantic_results[i].document,
                          semantic_results[i].semantic_score, query_entities) ],
        ScoreKey)

\* The key of the sort inside a group: (score, is_first_chunk), as a number
\* that orders the pairs the way Python orders the tuples.
group_key_score_only(x) == 2 * x.score

group_key(x) == 2 * x.score + (IF x.document.is_first_chunk THEN 1 ELSE 0)

\* conversation_groups: the doc ids in order of first occurrence (the
\* insertion order of the dictionary).
RECURSIVE group_order(_)
group_order(results) ==
    IF results = << >> THEN << >>
    ELSE LET front == group_order(SubSeq(results, 1, Len(results) - 1))
             id    == results[Len(results)].document.doc_id
         IN  IF id \in ToSet(front) THEN front ELSE Append(front, id)

\* conversation_groups[doc_id]: the results of one document, in input order.
group_of(results, doc_id) ==
    SelectSeq(results, LAMBDA x : x.document.doc_id = doc_id)

\* group.sort(...); best_chunk = group[0]
best_chunk(group) == StableSortDesc(group, group_key)[1]

\* _group_and_contextualize: the list returned.
best_chunks_not_cached(ranked_results) ==
    LET ids == group_order(ranked_results)
        all == [ g \in 1..Len(ids) |->
                   best_chunk(group_of(ranked_results, ids[g])) ]
    IN  SelectSeq(all, LAMBDA x : x.document.chunk_id \notin conversation_cache)

best_chunk_per_candidate(ranked_results) ==
    [ i \in 1..Len(ranked_results) |->
        best_chunk(group_of(ranked_results, ranked_results[i].document.doc_id)) ]

group_and_contextualize(ranked_results) ==
    LET ids == group_order(ranked_results)
    IN  [ g \in 1..Len(ids) |-> best_chunk(group_of(ranked_results, ids[g])) ]

\* _group_and_contextualize: the cache after the call.
cache_after_grouping(cache, ranked_results) ==
    cache \cup { x.document.chunk_id :
                    x \in ToSet(group_and_contextualize(ranked_results)) }

\* ranked_results[:k], the list handed to the grouping by hybrid_search.
top_2k(ranked_results, k) == FirstN(ranked_results, 2 * k)

top_k(ranked_results, k) == FirstN(ranked_results, k)

\* A text is a sequence of words separated by single spaces, a word being
\* one of Words.  What each regular expression of the retriever finds in
\* one word, in order; no match of these expressions spans two words.
Words ==
    { "$5", "5%", "2023", "5", "20", "1,000", "revenue", "Revenue", "growth" }

\* re.findall(r'\$\s*\d+(?:,\d{3})*(?:\.\d+)?', word)
currency_in(word) == IF word = "$5" THEN << "$5" >> ELSE << >>

\* re.findall(r'-?\d+(?:\.\d+)?%', word)
percentages_in(word) == IF word = "5%" THEN << "5%" >> ELSE << >>

\* re.findall(r'\b(19|20)\d{2}\b', word): findall returns the group.
years_in(word) == IF word = "2023" THEN << "20" >> ELSE << >>

\* re.findall(r'-?\d+(?:,\d{3})*(?:\.\d+)?', word)
numbers_in(word) ==
    CASE word \in { "$5", "5%", "5" } -> << "5" >>
      [] word \in { "2023", "20", "1,000" } -> << word >>
      [] OTHER -> << >>

\* re.findall(r'\b(increase|...|revenue|...)\b', word.lower())
financial_terms_in(word) ==
    CASE word \in { "revenue", "Revenue" } -> << "revenue" >>
      [] word = "growth" -> << "growth" >>
      [] OTHER -> << >>

\* re.findall(pattern, text): the matches in the words of the text, in order.
RECURSIVE findall(_, _)
findall(In(_), text) ==
    IF text = << >> THEN << >>
    ELSE In(Head(text)) \o findall(In, Tail(text))

\* c.replace('$', '').replace(',', '').strip()
strip_currency(c) == IF c = "$5" THEN "5" ELSE c

\* p.replace('%', '')
strip_percent(p) == IF p = "5%" THEN "5" ELSE p

\* n.replace(',', '')
without_commas(n) == IF n = "1,000" THEN "1000" ELSE n

\* entities["currency"]
extracted_currency(text) ==
    LET currency == findall(currency_in, text)
    IN  [ i \in 1..Len(currency) |-> strip_currency(currency[i]) ]

\* entities["percentages"]
extracted_percentages(text) ==
    LET percentages == findall(percentages_in, text)
    IN  [ i \in 1..Len(percentages) |-> strip_percent(percentages[i]) ]

\* entities["years"]
extracted_years(text) == findall(years_in, text)

\* entities["numbers"]: clean_numbers
extracted_numbers(text) ==
    LET numbers == findall(numbers_in, text)
        kept == SelectSeq(numbers, LAMBDA n :
                    /\ without_commas(n) \notin ToSet(extracted_currency(text))
                    /\ n \notin ToSet(extracted_years(text))
                    /\ without_commas(n) \notin ToSet(extracted_percentages(text)))
    IN  [ i \in 1..Len(kept) |-> without_commas(kept[i]) ]

\* set(financial_terms)
extracted_terms(text) == ToSet(findall(financial_terms_in, text))

\* list(set): the elements of S, each once, in an order the code does not
\* determine.
Orderings(S) == { order \in [ 1..Cardinality(S) -> S ] : ToSet(order) = S }

\* _extract_financial_entities(text): the dictionary returned, terms_order
\* being the order list(set(financial_terms)) takes.
extract_financial_entities(text, terms_order) ==
    [ numbers         |-> extracted_numbers(text),
      currency        |-> extracted_currency(text),
      percentages     |-> extracted_percentages(text),
      financial_terms |-> terms_order,
      years           |-> extracted_years(text) ]

\* re.findall(r'\d+(?:\.\d+)?%?', word.lower()), the numbers _enhance_query
\* collects.
enhance_numbers_in(word) ==
    CASE word \in { "$5", "5" } -> << "5" >>
      [] word \in { "5%", "2023", "20" } -> << word >>
      [] word = "1,000" -> << "1", "000" >>
      [] OTHER -> << >>

\* re.findall(r'\b(increase|decrease|growth|profit|revenue|cost|margin|
\* ratio)\b', word.lower()), the terms _enhance_query collects.
enhance_terms_in(word) ==
    CASE word \in { "revenue", "Revenue" } -> << "revenue" >>
      [] word = "growth" -> << "growth" >>
      [] OTHER -> << >>

\* chat_history[-2:]
all_messages(chat_history) == chat_history

recent_messages(chat_history) == LastN(chat_history, 2)

\* key_terms after the loop over the recent messages.
RECURSIVE key_terms_of(_)
key_terms_of(messages) ==
    IF messages = << >> THEN {}
    ELSE ToSet(findall(enhance_numbers_in, Head(messages).content))
         \cup ToSet(findall(enhance_terms_in, Head(messages).content))
         \cup key_terms_of(Tail(messages))

\* _enhance_query(query, chat_history): the query returned, a text; joined
\* is the order in which ' '.join(key_terms) lists the set.
enhance_query(query, chat_history, joined) ==
    IF chat_history = << >> THEN query
    ELSE IF key_terms_of(recent_messages(chat_history)) # {}
         THEN query \o joined
         ELSE query

\* An entity set with no entities.
NoEntities ==
    [ numbers |-> << >>, percentages |-> << >>, financial_terms |-> << >> ]

\* The arguments of a search that has not been made.
NoSearch ==
    [ semantic_results |-> << >>, query_entities |-> NoEntities, k |-> 0 ]

(***************************************************************************)
(* MetricsTracker: the answer, latency and token metrics, the aggregate.    *)
(***************************************************************************)
RECURSIVE SumSeq(_)
SumSeq(values) ==
    IF values = << >> THEN 0 ELSE Head(values) + SumSeq(Tail(values))

\* safe_mean: float(np.mean(values)) if values else 0.0
safe_mean(values) ==
    IF values = << >> THEN 0 ELSE SumSeq(values) \div Len(values)

\* track_tokens(text): n is len(tokenizer.encode(text)).
track_tokens(t, n) == [ t EXCEPT !.total_tokens = @ + n ]

\* The scores used when the ROUGE scorer raises.
ZeroRouge == [ rouge1 |-> 0, rouge2 |-> 0, rougeL |-> 0 ]

\* calculate_rouge_with_context: rouge is what the scorer returned.
calculate_rouge_with_context(t, rouge) ==
    [ t EXCEPT !.rouge1 = Append(@, rouge.rouge1),
               !.rouge2 = Append(@, rouge.rouge2),
               !.rougeL = Append(@, rouge.rougeL) ]

\* A text is a sequence of characters.  text.lower(): "A" stands for the
\* upper-case letters, "a" for the lower-case ones.
lower(c) == IF c = "A" THEN "a" ELSE c

\* \w: the characters of a word.
IsWordChar(c) == c \in { "a", "A" }

\* [.,!?;]: the punctuation that is a token of its own.
IsKeptPunctuation(c) == c \in { "." }

\* re.findall(r'\b\w+\b|[.,!?;]', text.lower()) on ' '.join(text.split()):
\* the maximal runs of word characters and the kept punctuation marks, in
\* order; white space and every other character separate tokens and are
\* dropped.  A token is the sequence of its characters.
RECURSIVE tokens_of(_)
tokens_of(text) ==
    IF text = << >> THEN << >>
    ELSE LET front == SubSeq(text, 1, Len(text) - 1)
             found == tokens_of(front)
             c     == lower(text[Len(text)])
         IN  IF IsWordChar(c)
             THEN IF front # << >> /\ IsWordChar(front[Len(front)])
                  THEN [ found EXCEPT ![Len(found)] = Append(@, c) ]
                  ELSE Append(found, << c >>)
             ELSE IF IsKeptPunctuation(c) THEN Append(found, << c >>)
             ELSE found

\* _tokenize_text: ' '.join(tokens); the tokens hold no space, so the joined
\* string is modelled by the list of tokens.
tokenize_text(text) == tokens_of(text)

\* exact_match = 1.0 if pred_clean == truth_clean else 0.0
exact_match_of(predicted_answer, ground_truth) ==
    IF tokenize_text(predicted_answer) = tokenize_text(ground_truth)
    THEN Scale ELSE 0

\* The except branch left out: the scores of a perfect match stand in for
\* a failure of the scorer.
rouge_scores_failure_as_match(report) ==
    IF report = << >> THEN [ rouge1 |-> Scale, rouge2 |-> Scale, rougeL |-> Scale ]
    ELSE report[1]

\* What the ROUGE scorer does with a pair of texts: it raises (<< >>) or
\* returns scores (<< scores >>).  The except branch replaces a failure by
\* ZeroRouge.
rouge_scores_of(report) == IF report = << >> THEN ZeroRouge ELSE report[1]

\* answer_accuracy = 1.0 if (cos_sim > 0.8 or rouge1 > 0.5) else 0.0
answer_accuracy_of(cos_sim, rouge) ==
    IF cos_sim > 800 \/ rouge.rouge1 > 500 THEN Scale ELSE 0

\* The answer metrics recorded without tracking the tokens of the answer.
answer_metrics_without_tokens(t, answer_tokens, exact_match, cos_sim, rouge) ==
    [ t EXCEPT !.answer_accuracy   = Append(@, answer_accuracy_of(cos_sim, rouge)),
               !.exact_match       = Append(@, IF exact_match THEN Scale ELSE 0),
               !.cosine_similarity = Append(@, cos_sim),
               !.rouge1            = Append(@, rouge.rouge1),
               !.rouge2            = Append(@, rouge.rouge2),
               !.rougeL            = Append(@, rouge.rougeL) ]

\* calculate_answer_metrics: the tracker after the call.
calculate_answer_metrics(t, answer_tokens, exact_match, cos_sim, rouge) ==
    [ t EXCEPT !.total_tokens      = @ + answer_tokens,
               !.answer_accuracy   = Append(@, answer_accuracy_of(cos_sim, rouge)),
               !.exact_match       = Append(@, IF exact_match THEN Scale ELSE 0),
               !.cosine_similarity = Append(@, cos_sim),
               !.rouge1            = Append(@, rouge.rouge1),
               !.rouge2            = Append(@, rouge.rouge2),
               !.rougeL            = Append(@, rouge.rougeL) ]

\* calculate_answer_metrics: the dictionary returned.
answer_metrics(predicted_answer, ground_truth, cos_sim, rouge_report) ==
    LET rouge == rouge_scores_of(rouge_report)
    IN  [ answer_accuracy   |-> answer_accuracy_of(cos_sim, rouge),
          exact_match       |-> exact_match_of(predicted_answer, ground_truth),
          cosine_similarity |-> cos_sim,
          rouge1            |-> rouge.rouge1,
          rouge2            |-> rouge.rouge2,
          rougeL            |-> rouge.rougeL ]

\* " ".join(contents): the words of the contents, in order.
RECURSIVE join_contents(_)
join_contents(contents) ==
    IF contents = << >> THEN << >>
    ELSE Head(contents) \o join_contents(Tail(contents))

\* conversation_history[-3:]
whole_history(conversation_history) == conversation_history

last_three(conversation_history) == LastN(conversation_history, 3)

\* calculate_context_retention: the texts handed to embeddings.embed_query,
\* in call order.
retention_embed_calls(current_answer, conversation_history) ==
    IF conversation_history = << >> THEN << >>
    ELSE << current_answer, join_contents(last_three(conversation_history)) >>

\* process_question, lines 222-230: the context retention of the turn and
\* the embed_query calls made to score it; retention is the cosine
\* similarity of the two embeddings.
context_retention_of_turn(current_answer, chat_history, retention) ==
    IF chat_history = << >>
    THEN [ context_retention |-> Scale, embed_calls |-> << >> ]
    ELSE LET conversation_history ==
                 [ i \in 1..Len(chat_history) |-> chat_history[i].content ]
         IN  [ context_retention |-> retention,
               embed_calls |-> retention_embed_calls(current_answer,
                                                     conversation_history) ]

\* calculate_context_retention: the tracker after the call.
calculate_context_retention(t, conversation_history, retention) ==
    IF conversation_history = << >> THEN t
    ELSE [ t EXCEPT !.context_retention = Append(@, retention) ]

\* track_response_time
track_response_time(t, latency) ==
    [ t EXCEPT !.response_latency = Append(@, latency) ]

\* get_aggregate_metrics
get_aggregate_metrics(t) ==
    [ answer_accuracy       |-> safe_mean(t.answer_accuracy),
      exact_match_rate      |-> safe_mean(t.exact_match),
      cosine_similarity     |-> safe_mean(t.cosine_similarity),
      rouge1                |-> safe_mean(t.rouge1),
      rouge2                |-> safe_mean(t.rouge2),
      rougeL                |-> safe_mean(t.rougeL),
      retrieval_precision   |-> safe_mean(t.retrieval_precision),
      retrieval_recall      |-> safe_mean(t.retrieval_recall),
      f1_score              |-> safe_mean(t.f1_score),
      ndcg                  |-> safe_mean(t.ndcg),
      mrr                   |-> safe_mean(t.mrr),
      response_latency      |-> safe_mean(t.response_latency),
      context_retention     |-> safe_mean(t.context_retention),
      total_questions       |-> t.total_questions,
      successful_retrievals |-> t.successful_retrievals,
      total_conversations   |-> t.total_conversations,
      total_tokens          |-> t.total_tokens ]

(***************************************************************************)
(* RAGEngine                                                                *)
(***************************************************************************)
\* hybrid_search(query, chat_history, k = 5)
DefaultK == 5

\* hybrid_search from the results of the vector search on.
hybrid_search(semantic_results, query_entities, k) ==
    group_and_contextualize(
        top_k(hybrid_rank(semantic_results, query_entities), k))

\* chat, main.py lines 41-49: the response to a call of process_question
\* that returned (200), or that raised because of the collaborator named
\* (HTTPException, status 500).
returned_response(fault) == [ status |-> 200, fault |-> fault ]

raised_response(fault) == [ status |-> 500, fault |-> fault ]

\* The tokens of the prompt built for a question: the template, the
\* retrieved context and the chat history add to those of the question.
prompt_tokens_of(question_tokens) == question_tokens + 1

\* if conversation_id not in self.conversation_memories (negated)
conversation_never_known(conversation_id, memories) == FALSE

conversation_known(conversation_id, memories) ==
    conversation_id \in DOMAIN memories

\* The conversation data created on the first question of a conversation.
\* 'memory' is the number of exchanges saved in the buffer memory;
\* 'aggregate' is << >> until metrics.update(all_metrics) has stored the
\* fields of an aggregate in the metrics dictionary.
new_conversation ==
    [ memory  |-> 0,
      metrics |-> [ questions_asked |-> 0, total_tokens |-> 0,
                    average_response_time |-> 0, aggregate |-> << >> ] ]

\* The relevance threshold of the default relevant_docs: score > 0.7.
RelevanceThreshold == 700

\* The default taken from every result, not from the first three.
default_relevant_all_results(search_results) ==
    LET kept == SelectSeq(search_results,
                          LAMBDA x : x.score > RelevanceThreshold)
    IN  [ i \in 1..Len(kept) |-> kept[i].document.doc_id ]

\* The default taken from the first three results whatever their score.
default_relevant_any_score(search_results) ==
    LET kept == FirstN(search_results, 3)
    IN  [ i \in 1..Len(kept) |-> kept[i].document.doc_id ]

\* [doc_id for doc in search_results[:3] if doc['score'] > 0.7]
default_relevant_docs(search_results) ==
    LET kept == SelectSeq(FirstN(search_results, 3),
                          LAMBDA x : x.score > RelevanceThreshold)
    IN  [ i \in 1..Len(kept) |-> kept[i].document.doc_id ]

\* process_question, lines 164-169: context['relevant_docs'] when the
\* retrieval metrics are calculated; relevant_docs is << >> when the caller
\* supplied none and <<the list>> otherwise.
relevant_docs_of_turn(relevant_docs, search_results) ==
    IF relevant_docs = << >> THEN default_relevant_docs(search_results)
    ELSE relevant_docs[1]

\* The results as calculate_retrieval_metrics reads them.
as_retrieved_docs(search_results) ==
    [ i \in 1..Len(search_results) |->
        [ doc_id |-> search_results[i].document.doc_id,
          score  |-> search_results[i].score ] ]

\* The running mean replaced by the latest response time.
conversation_metrics_overwritten(metrics, response_time) ==
    [ metrics EXCEPT !.questions_asked = @ + 1,
                     !.average_response_time = response_time ]

\* _update_metrics(metrics, response_time)
update_conversation_metrics(metrics, response_time) ==
    LET n == metrics.questions_asked + 1
    IN  [ metrics EXCEPT
            !.questions_asked = n,
            !.average_response_time =
                (metrics.average_response_time * (n - 1) + response_time) \div n ]

\* conversation_data['metrics'].update(all_metrics): the keys of the
\* aggregate are written over the dictionary; total_tokens is a key of both.
metrics_updated_with(metrics, all_metrics) ==
    [ metrics EXCEPT !.total_tokens = all_metrics.total_tokens,
                     !.aggregate = << all_metrics >> ]

\* sum(conv['metrics'][key] for conv in conversation_memories.values())
RECURSIVE SumOver(_, _, _)
SumOver(memories, ids, key) ==
    IF ids = {} THEN 0
    ELSE LET c == CHOOSE x \in ids : TRUE
         IN  memories[c].metrics[key] + SumOver(memories, ids \ {c}, key)

\* get_metrics, lines 314-326: the aggregate handed to the store.
overridden_aggregate(t, memories) ==
    [ get_aggregate_metrics(t) EXCEPT
        !.total_conversations = Cardinality(DOMAIN memories),
        !.total_questions = SumOver(memories, DOMAIN memories, "questions_asked"),
        !.total_tokens = SumOver(memories, DOMAIN memories, "total_tokens") ]

(***************************************************************************)
(* Specification SpecStore: a store that receives update_metrics calls.     *)
(***************************************************************************)
\* An aggregate that differs from the initial one: one question answered.
OtherAggregate ==
    [ InitialAggregate EXCEPT !.total_questions = 1, !.total_tokens = 4,
                              !.total_conversations = 1 ]

StoreInputs == { InitialAggregate, OtherAggregate }

\* The state of the parts a specification does not use.
StoreIdle ==
    /\ file = reset_metrics
    /\ clock = 0
    /\ appended = << >>
    /\ arg = InitialAggregate
    /\ calls = 0

RetrievalIdle ==
    /\ tracker = reset
    /\ r_in = NoCall
    /\ r_out = ZeroRetrievalMetrics
    /\ r_pc = "idle"

SearchIdle ==
    /\ conversation_cache = {}
    /\ s_in = NoSearch
    /\ s_ranked = << >>
    /\ s_out = << >>
    /\ s_pc = "idle"

EngineIdle ==
    /\ conversation_memories = << >>
    /\ inflight = << >>
    /\ started = 0
    /\ last_returned = << >>
    /\ snapshots = << >>
    /\ last_response = << >>

HelperIdle ==
    /\ h_in = << >>
    /\ h_out = << >>
    /\ h_pc = "idle"

StoreInit ==
    /\ HelperIdle
    /\ RetrievalIdle
    /\ SearchIdle
    /\ EngineIdle
    /\ file = reset_metrics
    /\ clock = 0
    /\ appended = << >>
    /\ arg = InitialAggregate
    /\ calls = 0

\* One call of MetricsStorage.update_metrics(new_metrics).
UpdateMetricsCall(new_metrics) ==
    /\ calls < MaxCalls
    /\ calls' = calls + 1
    /\ arg' = new_metrics
    /\ file' = update_metrics(file, new_metrics, clock + 1)
    /\ IF update_appends(file, new_metrics)
       THEN /\ clock' = clock + 1
            /\ appended' = Append(appended,
                                  metrics_with_timestamp(new_metrics, clock + 1))
       ELSE UNCHANGED <<clock, appended>>
    /\ UNCHANGED retrievalVars
    /\ UNCHANGED searchVars
    /\ UNCHANGED engineVars
    /\ UNCHANGED helperVars

StoreNext == \E new_metrics \in StoreInputs : UpdateMetricsCall(new_metrics)

SpecStore == StoreInit /\ [][StoreNext]_vars

(***************************************************************************)
(* Specification SpecRetrieval: one call of calculate_retrieval_metrics on  *)
(* a tracker that is fresh or holds the metrics of an earlier call.         *)
(***************************************************************************)
\* Every sequence over S of length at most n.
SeqsUpTo(S, n) == UNION { [1..m -> S] : m \in 0..n }

DocIds == { "d1", "d2" }

\* The ids a caller may name as relevant: the corpus ids and a foreign one.
RelevantPool == DocIds \cup { "d9" }

\* 0.5 is not admitted (the test is score > 0.5); 0.9 is.
Scores == { 500, 900 }

RetrievedDocs == [ doc_id : DocIds, score : Scores ]

\* Scenario A of the specification: retrieved 1 (0.9), 2 (0.3); relevant {1}.
ScenarioA ==
    [ retrieved_docs |-> << [doc_id |-> "d1", score |-> 900],
                            [doc_id |-> "d2", score |-> 300] >>,
      relevant_docs  |-> << "d1" >>,
      k              |-> NoK ]

\* The tracker before the call: fresh, or after the call of Scenario A.
PriorTrackers ==
    { reset,
      tracker_after_retrieval(reset, ScenarioA.retrieved_docs,
                              ScenarioA.relevant_docs, ScenarioA.k) }

RetrievalInit ==
    /\ HelperIdle
    /\ StoreIdle
    /\ SearchIdle
    /\ EngineIdle
    /\ tracker \in PriorTrackers
    /\ r_in \in [ retrieved_docs : SeqsUpTo(RetrievedDocs, MaxRetrieved),
                  relevant_docs  : SeqsUpTo(RelevantPool, MaxRelevant),
                  k : { NoK } \cup { <<n>> : n \in 0..MaxRetrieved } ]
    /\ r_out = ZeroRetrievalMetrics
    /\ r_pc = "call"

\* MetricsTracker.calculate_retrieval_metrics(retrieved_docs, relevant_docs, k)
CalculateRetrievalMetrics ==
    /\ r_pc = "call"
    /\ r_out' = retrieval_metrics(r_in.retrieved_docs, r_in.relevant_docs, r_in.k)
    /\ tracker' = tracker_after_retrieval(tracker, r_in.retrieved_docs,
                                          r_in.relevant_docs, r_in.k)
    /\ r_pc' = "done"
    /\ UNCHANGED r_in
    /\ UNCHANGED storeVars
    /\ UNCHANGED searchVars
    /\ UNCHANGED engineVars
    /\ UNCHANGED helperVars

RetrievalNext == CalculateRetrievalMetrics

SpecRetrieval == RetrievalInit /\ [][RetrievalNext]_vars

(***************************************************************************)
(* The corpus of the vector store used by SpecGroup and SpecSearch: five    *)
(* chunks of three documents, with the metadata process_documents writes.   *)
(***************************************************************************)
Chunk(doc_id, chunk_id, is_first_chunk, numbers, percentages, terms) ==
    [ doc_id |-> doc_id, chunk_id |-> chunk_id,
      is_first_chunk |-> is_first_chunk,
      financial_entities |->
          [ numbers |-> numbers, percentages |-> percentages,
            financial_terms |-> terms ] ]

Corpus ==
    { Chunk("0", "0-0", TRUE,  << "5" >>, << >>,       << "revenue" >>),
      Chunk("0", "0-1", FALSE, << "5" >>, << >>,       << "revenue" >>),
      Chunk("1", "1-0", TRUE,  << >>,     << "15%" >>, << >>),
      Chunk("1", "1-1", FALSE, << "5" >>, << >>,       << >>),
      Chunk("2", "2-0", TRUE,  << >>,     << >>,       << "growth" >>) }

\* The distances the vector search reports: 0.0 and 1.0.
Distances == { 0, 1000 }

\* The merged entities of the query and the last two history messages: none,
\* or a number (extended twice), and a term.
QueryEntities ==
    { NoEntities,
      [ numbers |-> << "5", "5" >>, percentages |-> << >>,
        financial_terms |-> << "revenue" >> ] }

CacheStates == { {}, { "0-1" } }

(***************************************************************************)
(* Specification SpecGroup: one call of _group_and_contextualize on a list  *)
(* of ranked results in any order.                                          *)
(***************************************************************************)
GroupInit ==
    /\ HelperIdle
    /\ StoreIdle
    /\ RetrievalIdle
    /\ EngineIdle
    /\ conversation_cache \in CacheStates
    /\ s_in = NoSearch
    /\ \E q \in QueryEntities :
           s_ranked \in SeqsUpTo({ ranked_result(c, d, q) :
                                       c \in Corpus, d \in Distances },
                                 MaxGrouped)
    /\ s_out = << >>
    /\ s_pc = "group"

\* EnhancedRetriever._group_and_contextualize(results)
GroupAndContextualize(results) ==
    /\ s_pc = "group"
    /\ s_out' = group_and_contextualize(results)
    /\ conversation_cache' = cache_after_grouping(conversation_cache, results)
    /\ s_pc' = "done"
    /\ UNCHANGED <<s_in, s_ranked>>
    /\ UNCHANGED storeVars
    /\ UNCHANGED retrievalVars
    /\ UNCHANGED engineVars
    /\ UNCHANGED helperVars

GroupNext == GroupAndContextualize(s_ranked)

SpecGroup == GroupInit /\ [][GroupNext]_vars

(***************************************************************************)
(* Specification SpecSearch: one call of hybrid_search, from the results of *)
(* the vector search on.                                                    *)
(***************************************************************************)
\* The candidates of the vector search: distinct chunks, each with a distance.
Candidates == [ document : Corpus, semantic_score : Distances ]

DistinctChunks(s) ==
    \A i \in 1..Len(s) : \A j \in 1..Len(s) :
        i # j => s[i].document # s[j].document

SearchInit ==
    /\ HelperIdle
    /\ StoreIdle
    /\ RetrievalIdle
    /\ EngineIdle
    /\ conversation_cache \in CacheStates
    /\ \E k \in 1..MaxK :
       \E q \in QueryEntities :
       \E c \in { x \in SeqsUpTo(Candidates, 2 * k) : DistinctChunks(x) } :
           s_in = [ semantic_results |-> c, query_entities |-> q, k |-> k ]
    /\ s_ranked = << >>
    /\ s_out = << >>
    /\ s_pc = "rank"

\* hybrid_search, lines 42-46: ranked_results = self._hybrid_rank(...)
HybridRank ==
    /\ s_pc = "rank"
    /\ s_ranked' = hybrid_rank(s_in.semantic_results, s_in.query_entities)
    /\ s_pc' = "group"
    /\ UNCHANGED <<conversation_cache, s_in, s_out>>
    /\ UNCHANGED storeVars
    /\ UNCHANGED retrievalVars
    /\ UNCHANGED engineVars
    /\ UNCHANGED helperVars

\* hybrid_search, line 49: self._group_and_contextualize(ranked_results[:k])
SearchNext ==
    \/ HybridRank
    \/ GroupAndContextualize(top_k(s_ranked, s_in.k))

SpecSearch == SearchInit /\ [][SearchNext]_vars

(***************************************************************************)
(* Specification SpecRerun: hybrid_search runs twice on the same semantic   *)
(* results and query entities; the second run starts with the cache the     *)
(* first run left.  h_out keeps the list the first run returned.            *)
(***************************************************************************)
\* The caller keeps the result of the first run and searches again.
SearchAgain ==
    /\ s_pc = "done"
    /\ h_pc = "idle"
    /\ h_out' = << s_out >>
    /\ h_pc' = "again"
    /\ s_ranked' = << >>
    /\ s_out' = << >>
    /\ s_pc' = "rank"
    /\ UNCHANGED <<h_in, s_in, conversation_cache>>
    /\ UNCHANGED storeVars
    /\ UNCHANGED retrievalVars
    /\ UNCHANGED engineVars

RerunNext ==
    \/ HybridRank
    \/ GroupAndContextualize(top_k(s_ranked, s_in.k))
    \/ SearchAgain

SpecRerun == SearchInit /\ [][RerunNext]_vars

(***************************************************************************)
(* Specification SpecScore: _hybrid_rank scores two candidates against one  *)
(* query entity set.                                                        *)
(***************************************************************************)
\* The entity lists of a document: numbers and financial terms of at most
\* MaxEntities entries (repeats included), at most one percentage.
DocumentEntities ==
    [ numbers         : SeqsUpTo({ "5", "7" }, MaxEntities),
      percentages     : SeqsUpTo({ "15" }, 1),
      financial_terms : SeqsUpTo({ "revenue" }, MaxEntities) ]

\* The merged entity lists of the query and the last two history messages.
ScoredQueries ==
    { [ numbers |-> << "5" >>, percentages |-> << "15" >>,
        financial_terms |-> << "revenue" >> ],
      [ numbers |-> << "7", "5", "5" >>, percentages |-> << >>,
        financial_terms |-> << "growth", "revenue" >> ] }

\* The distances the vector search reports: 0.0 and 1.5.
ScoredDistances == { 0, 1500 }

ScoreInit ==
    /\ StoreIdle
    /\ RetrievalIdle
    /\ SearchIdle
    /\ EngineIdle
    /\ h_in \in [ entities_a : DocumentEntities, distance_a : ScoredDistances,
                  entities_b : DocumentEntities, distance_b : ScoredDistances,
                  query_entities : ScoredQueries ]
    /\ h_out = << >>
    /\ h_pc = "call"

\* The loop of _hybrid_rank (lines 129-142) over the two candidates.
ScoreCandidates ==
    /\ h_pc = "call"
    /\ h_out' =
           [ a |-> ranked_result([ financial_entities |-> h_in.entities_a ],
                                 h_in.distance_a, h_in.query_entities),
             b |-> ranked_result([ financial_entities |-> h_in.entities_b ],
                                 h_in.distance_b, h_in.query_entities) ]
    /\ h_pc' = "done"
    /\ UNCHANGED h_in
    /\ UNCHANGED storeVars
    /\ UNCHANGED retrievalVars
    /\ UNCHANGED searchVars
    /\ UNCHANGED engineVars

ScoreNext == ScoreCandidates

SpecScore == ScoreInit /\ [][ScoreNext]_vars

(***************************************************************************)
(* Specification SpecEnhance: one call of _enhance_query.                   *)
(***************************************************************************)
\* The words of the history messages: a percentage, a number with a comma,
\* two terms of the vocabulary (one capitalised) and a word that matches
\* nothing.
HistoryWords == { "5%", "1,000", "Revenue", "growth", "sales" }

\* A message: its content is empty or one word.
Messages == [ content : SeqsUpTo(HistoryWords, 1) ]

EnhancedQueries == { << "sales" >>, << "growth", "5%" >> }

EnhanceInit ==
    /\ StoreIdle
    /\ RetrievalIdle
    /\ SearchIdle
    /\ EngineIdle
    /\ h_in \in [ query : EnhancedQueries,
                  chat_history : SeqsUpTo(Messages, MaxHistory) ]
    /\ h_out = << >>
    /\ h_pc = "call"

\* EnhancedRetriever._enhance_query(query, chat_history)
EnhanceQuery ==
    /\ h_pc = "call"
    /\ \E joined \in Orderings(key_terms_of(recent_messages(h_in.chat_history))) :
           h_out' = << enhance_query(h_in.query, h_in.chat_history, joined) >>
    /\ h_pc' = "done"
    /\ UNCHANGED h_in
    /\ UNCHANGED storeVars
    /\ UNCHANGED retrievalVars
    /\ UNCHANGED searchVars
    /\ UNCHANGED engineVars

EnhanceNext == EnhanceQuery

SpecEnhance == EnhanceInit /\ [][EnhanceNext]_vars

(***************************************************************************)
(* Specification SpecRetention: the context-retention scoring of one turn   *)
(* (process_question, lines 222-230).                                       *)
(***************************************************************************)
\* The cosine similarities the embedding collaborator may yield.
Retentions == { 400, 800 }

RetentionInit ==
    /\ StoreIdle
    /\ RetrievalIdle
    /\ SearchIdle
    /\ EngineIdle
    /\ h_in \in [ current_answer : { << "growth" >> },
                  chat_history : SeqsUpTo(Messages, MaxTurnHistory),
                  retention : Retentions ]
    /\ h_out = << >>
    /\ h_pc = "call"

\* context_retention = 1.0; if chat_history: context_retention =
\* self.metrics_tracker.calculate_context_retention(...)
ScoreContextRetention ==
    /\ h_pc = "call"
    /\ h_out' = context_retention_of_turn(h_in.current_answer,
                                          h_in.chat_history, h_in.retention)
    /\ tracker' = calculate_context_retention(tracker, h_in.chat_history,
                                              h_in.retention)
    /\ h_pc' = "done"
    /\ UNCHANGED h_in
    /\ UNCHANGED <<r_in, r_out, r_pc>>
    /\ UNCHANGED storeVars
    /\ UNCHANGED searchVars
    /\ UNCHANGED engineVars

RetentionNext == ScoreContextRetention

SpecRetention == RetentionInit /\ [][RetentionNext]_vars

(***************************************************************************)
(* Specification SpecEvaluate: the retrieval and its evaluation in one turn *)
(* (process_question, lines 155-175), from the results of the vector search *)
(* on, for a question without entities.                                     *)
(***************************************************************************)
\* The chunks found: two of one document and one of each of three others.
EvaluatedChunks ==
    { Chunk("0", "0-0", TRUE,  << >>, << >>, << >>),
      Chunk("0", "0-1", FALSE, << >>, << >>, << >>),
      Chunk("1", "1-0", TRUE,  << >>, << >>, << >>),
      Chunk("2", "2-0", TRUE,  << >>, << >>, << >>),
      Chunk("3", "3-0", TRUE,  << >>, << >>, << >>) }

\* The distances reported: 0.25, 0.667 and 1.5 give the scores 0.8, 0.599
\* and 0.4.
EvaluatedDistances == { 250, 667, 1500 }

\* context['relevant_docs']: absent, or a list the caller supplied.
SuppliedRelevantDocs == { << >>, << << "1", "9" >> >>, << << >> >> }

EvaluateInit ==
    /\ StoreIdle
    /\ RetrievalIdle
    /\ SearchIdle
    /\ EngineIdle
    /\ \E c \in { x \in SeqsUpTo([ document : EvaluatedChunks,
                                     semantic_score : EvaluatedDistances ],
                                   MaxResults) : DistinctChunks(x) } :
       \E r \in SuppliedRelevantDocs :
           h_in = [ semantic_results |-> c, relevant_docs |-> r ]
    /\ h_out = << >>
    /\ h_pc = "call"

\* search_results = self.retriever.hybrid_search(...); the default
\* relevant_docs; self.metrics_tracker.calculate_retrieval_metrics(...)
EvaluateRetrieval ==
    /\ h_pc = "call"
    /\ LET search_results ==
               hybrid_search(h_in.semantic_results, NoEntities, DefaultK)
           relevant_docs ==
               relevant_docs_of_turn(h_in.relevant_docs, search_results)
       IN  /\ h_out' = [ search_results |-> search_results,
                         relevant_docs  |-> relevant_docs,
                         retrieval_metrics |->
                             retrieval_metrics(as_retrieved_docs(search_results),
                                               relevant_docs, NoK) ]
           /\ tracker' = tracker_after_retrieval(tracker,
                              as_retrieved_docs(search_results),
                              relevant_docs, NoK)
           /\ conversation_cache' =
                  cache_after_grouping(conversation_cache,
                      top_k(hybrid_rank(h_in.semantic_results, NoEntities),
                            DefaultK))
    /\ h_pc' = "done"
    /\ UNCHANGED h_in
    /\ UNCHANGED <<r_in, r_out, r_pc>>
    /\ UNCHANGED <<s_in, s_ranked, s_out, s_pc>>
    /\ UNCHANGED storeVars
    /\ UNCHANGED engineVars

EvaluateNext == EvaluateRetrieval

SpecEvaluate == EvaluateInit /\ [][EvaluateNext]_vars

(***************************************************************************)
(* Specification SpecEntities: one call of _extract_financial_entities.     *)
(***************************************************************************)
EntitiesInit ==
    /\ StoreIdle
    /\ RetrievalIdle
    /\ SearchIdle
    /\ EngineIdle
    /\ h_in \in [ text : SeqsUpTo(Words, MaxWords) ]
    /\ h_out = << >>
    /\ h_pc = "call"

\* EnhancedRetriever._extract_financial_entities(text)
ExtractFinancialEntities ==
    /\ h_pc = "call"
    /\ \E terms_order \in Orderings(extracted_terms(h_in.text)) :
           h_out' = extract_financial_entities(h_in.text, terms_order)
    /\ h_pc' = "done"
    /\ UNCHANGED h_in
    /\ UNCHANGED storeVars
    /\ UNCHANGED retrievalVars
    /\ UNCHANGED searchVars
    /\ UNCHANGED engineVars

EntitiesNext == ExtractFinancialEntities

SpecEntities == EntitiesInit /\ [][EntitiesNext]_vars

(***************************************************************************)
(* Specification SpecAnswer: one call of calculate_answer_metrics.  The     *)
(* cosine similarity and the ROUGE scorer are collaborators: every value    *)
(* they may report is an input.                                             *)
(***************************************************************************)
\* The characters of the texts: an upper-case and a lower-case letter, white
\* space, a punctuation mark that is kept and one that is not.
Chars == { "A", "a", " ", ".", "-" }

Texts == SeqsUpTo(Chars, MaxText)

\* Cosine similarities below and above the 0.8 threshold.
CosineSimilarities == { 500, 900 }

\* The scorer raises, or reports rouge1 below or above the 0.5 threshold.
RougeReports ==
    { << >>,
      << [ rouge1 |-> 400, rouge2 |-> 200, rougeL |-> 300 ] >>,
      << [ rouge1 |-> 600, rouge2 |-> 400, rougeL |-> 500 ] >> }

AnswerInit ==
    /\ StoreIdle
    /\ RetrievalIdle
    /\ SearchIdle
    /\ EngineIdle
    /\ h_in \in [ predicted_answer : Texts, ground_truth : Texts,
                  answer_tokens : { 1 }, cos_sim : CosineSimilarities,
                  rouge_report : RougeReports ]
    /\ h_out = << >>
    /\ h_pc = "call"

\* MetricsTracker.calculate_answer_metrics(predicted_answer, ground_truth,
\* embeddings)
CalculateAnswerMetrics ==
    /\ h_pc = "call"
    /\ h_out' = answer_metrics(h_in.predicted_answer, h_in.ground_truth,
                               h_in.cos_sim, h_in.rouge_report)
    /\ tracker' = calculate_answer_metrics(tracker, h_in.answer_tokens,
           exact_match_of(h_in.predicted_answer, h_in.ground_truth) = Scale,
           h_in.cos_sim, rouge_scores_of(h_in.rouge_report))
    /\ h_pc' = "done"
    /\ UNCHANGED h_in
    /\ UNCHANGED <<r_in, r_out, r_pc>>
    /\ UNCHANGED storeVars
    /\ UNCHANGED searchVars
    /\ UNCHANGED engineVars

AnswerNext == CalculateAnswerMetrics

SpecAnswer == AnswerInit /\ [][AnswerNext]_vars

(***************************************************************************)
(* Specification Spec: the engine serving process_question and get_metrics  *)
(* calls.  A process_question call runs from its start to the awaited       *)
(* answer generation in one step and from the answer to its return in       *)
(* another; calls interleave only there (one event loop, no other await).   *)
(***************************************************************************)
ConversationIds == { "a", "b" }

\* What the vector search returns for the question asked: nothing, or two
\* chunks of one document at distance 0 and a chunk of another document at
\* distance 0.667.
EngineSemanticResults ==
    { << >>,
      << [ document |-> Chunk("0", "0-1", FALSE, << "5" >>, << >>, << "revenue" >>),
           semantic_score |-> 0 ],
         [ document |-> Chunk("0", "0-0", TRUE, << "5" >>, << >>, << "revenue" >>),
           semantic_score |-> 0 ],
         [ document |-> Chunk("2", "2-0", TRUE, << >>, << >>, << "growth" >>),
           semantic_score |-> 667 ] >> }

\* The context of a request: the chat history, and relevant_docs as << >>
\* (the key is absent) or <<the list supplied>>.
RequestContexts ==
    { [ history |-> << >>, relevant_docs |-> << >> ],
      [ history |-> << [ role |-> "assistant", content |-> "previous answer" ] >>,
        relevant_docs |-> << >> ] }

\* The requests served: a first question that finds nothing, and a
\* follow-up question, sent with the chat history, that finds three chunks.
Requests ==
    { r \in [ context : RequestContexts, found : EngineSemanticResults ] :
        (r.context.history = << >>) = (r.found = << >>) }

\* The number of tokens of a question.
QuestionTokens == { 1 }

\* An answer and what the collaborators report for it: its number of
\* tokens, what the ROUGE scorer does against the retrieved context and
\* against the ground truth (<< scores >>, or << >> when it raises), whether
\* the canonical texts are equal, the cosine similarity, the context
\* retention, and the seconds the turn took.
AnswerOutcomes ==
    { [ answer_tokens |-> 1,
        rouge_context |-> << [ rouge1 |-> 600, rouge2 |-> 400, rougeL |-> 500 ] >>,
        rouge_truth   |-> << [ rouge1 |-> 600, rouge2 |-> 400, rougeL |-> 500 ] >>,
        exact_match   |-> FALSE, cos_sim |-> 900,
        retention     |-> 800,   latency |-> 1000 ],
      [ answer_tokens |-> 2,
        rouge_context |-> << >>,
        rouge_truth   |-> << >>,
        exact_match   |-> FALSE, cos_sim |-> 500,
        retention     |-> 400,   latency |-> 3000 ] }

\* The conversation of a turn, the tokens of its answer (line 191) and the
\* metrics process_question computes for it: the dictionaries returned by
\* calculate_retrieval_metrics and
\* calculate_answer_metrics, response_time, and context_retention (1.0
\* when the chat history is empty, line 222).
turn_metrics(call, outcome) ==
    LET rouge == rouge_scores_of(outcome.rouge_truth)
    IN  [ conversation_id   |-> call.conversation_id,
          response_tokens   |-> outcome.answer_tokens,
          precision         |-> call.retrieval_metrics.precision,
          recall            |-> call.retrieval_metrics.recall,
          f1                |-> call.retrieval_metrics.f1,
          ndcg              |-> call.retrieval_metrics.ndcg,
          mrr               |-> call.retrieval_metrics.mrr,
          answer_accuracy   |-> answer_accuracy_of(outcome.cos_sim, rouge),
          exact_match       |-> IF outcome.exact_match THEN Scale ELSE 0,
          cosine_similarity |-> outcome.cos_sim,
          rouge1            |-> rouge.rouge1,
          rouge2            |-> rouge.rouge2,
          rougeL            |-> rouge.rougeL,
          response_latency  |-> outcome.latency,
          context_retention |-> IF call.chat_history = << >> THEN Scale
                                ELSE outcome.retention ]

Init ==
    /\ HelperIdle
    /\ StoreIdle
    /\ RetrievalIdle
    /\ SearchIdle
    /\ EngineIdle

\* process_question, lines 124-188: from the start of the call to the
\* awaited answer generation.
ProcessQuestionBegin(conversation_id, question_tokens, context, semantic_results) ==
    /\ started < MaxTurns
    /\ Len(inflight) < MaxInflight
    /\ LET known    == conversation_known(conversation_id, conversation_memories)
           t1       == track_tokens(tracker, question_tokens)
           t2       == IF known THEN t1
                       ELSE [ t1 EXCEPT !.total_conversations = @ + 1 ]
           results  == hybrid_search(semantic_results, NoEntities, DefaultK)
           t3       == IF results # << >>
                       THEN [ t2 EXCEPT !.successful_retrievals = @ + 1 ]
                       ELSE t2
           relevant == relevant_docs_of_turn(context.relevant_docs, results)
           t4       == tracker_after_retrieval(t3, as_retrieved_docs(results),
                                               relevant, NoK)
           t5       == track_tokens(t4, prompt_tokens_of(question_tokens))
       IN  /\ tracker' = t5
           /\ conversation_memories' =
                  IF known THEN conversation_memories
                  ELSE [ c \in DOMAIN conversation_memories \cup { conversation_id }
                           |-> IF c = conversation_id THEN new_conversation
                               ELSE conversation_memories[c] ]
           /\ conversation_cache' =
                  cache_after_grouping(conversation_cache,
                      top_k(hybrid_rank(semantic_results, NoEntities), DefaultK))
           /\ inflight' = Append(inflight,
                  [ conversation_id   |-> conversation_id,
                    chat_history      |-> context.history,
                    search_results    |-> results,
                    retrieval_metrics |->
                        retrieval_metrics(as_retrieved_docs(results),
                                          relevant, NoK) ])
    /\ started' = started + 1
    /\ UNCHANGED <<last_returned, snapshots, last_response>>
    /\ UNCHANGED storeVars
    /\ UNCHANGED <<r_in, r_out, r_pc>>
    /\ UNCHANGED <<s_in, s_ranked, s_out, s_pc>>
    /\ UNCHANGED helperVars

\* The question counted although its turn failed.
tracker_counting_failed_question(t) == [ t EXCEPT !.total_questions = @ + 1 ]

\* except Exception: print(...); raise -- nothing the turn did is undone.
tracker_after_failure(t) == t

\* inflight without its i-th call.
without(calls_in_flight, i) ==
    [ j \in 1..(Len(calls_in_flight) - 1) |->
        IF j < i THEN calls_in_flight[j] ELSE calls_in_flight[j + 1] ]

\* process_question, lines 188 and 267-269: the answer generation raises,
\* and the call re-raises.
ProcessQuestionFail(i) ==
    /\ i \in 1..Len(inflight)
    /\ inflight' = without(inflight, i)
    /\ last_response' = << raised_response("answer_generation") >>
    /\ tracker' = tracker_after_failure(tracker)
    /\ UNCHANGED <<conversation_memories, started, last_returned, snapshots>>
    /\ UNCHANGED conversation_cache
    /\ UNCHANGED storeVars
    /\ UNCHANGED <<r_in, r_out, r_pc>>
    /\ UNCHANGED <<s_in, s_ranked, s_out, s_pc>>
    /\ UNCHANGED helperVars

\* process_question, lines 189-265: from the answer to the return.
ProcessQuestionFinish(i, outcome) ==
    /\ i \in 1..Len(inflight)
    /\ LET call == inflight[i]
           id   == call.conversation_id
           t1   == track_tokens(tracker, outcome.answer_tokens)
           t2   == calculate_rouge_with_context(t1,
                       rouge_scores_of(outcome.rouge_context))
           t3   == calculate_answer_metrics(t2, outcome.answer_tokens,
                       outcome.exact_match, outcome.cos_sim,
                       rouge_scores_of(outcome.rouge_truth))
           t4   == calculate_context_retention(t3, call.chat_history,
                                               outcome.retention)
           t5   == track_response_time(t4, outcome.latency)
           t6   == [ t5 EXCEPT !.total_questions = @ + 1 ]
           all_metrics == get_aggregate_metrics(t6)
           data == conversation_memories[id]
       IN  /\ tracker' = t6
           /\ conversation_memories' =
                  [ conversation_memories EXCEPT ![id] =
                      [ memory  |-> data.memory + 1,
                        metrics |-> metrics_updated_with(
                            update_conversation_metrics(data.metrics,
                                                        outcome.latency),
                            all_metrics) ] ]
           /\ file' = update_metrics(file, all_metrics, clock + 1)
           /\ IF update_appends(file, all_metrics)
              THEN /\ clock' = clock + 1
                   /\ appended' = Append(appended,
                          metrics_with_timestamp(all_metrics, clock + 1))
              ELSE UNCHANGED <<clock, appended>>
           /\ last_returned' = << all_metrics >>
           /\ snapshots' = Append(snapshots, turn_metrics(call, outcome))
    /\ inflight' = without(inflight, i)
    /\ last_response' = << returned_response("none") >>
    /\ UNCHANGED <<calls, arg, started, conversation_cache>>
    /\ UNCHANGED <<r_in, r_out, r_pc>>
    /\ UNCHANGED <<s_in, s_ranked, s_out, s_pc>>
    /\ UNCHANGED helperVars

\* get_metrics(conversation_id) for a known conversation (lines 311-312)
\* returns that conversation's metrics dictionary and changes nothing.
\* get_metrics(), lines 314-330: called with no conversation id, or with
\* an unknown one.
GetMetrics ==
    /\ LET aggregate_metrics == overridden_aggregate(tracker, conversation_memories)
       IN  /\ file' = update_metrics(file, aggregate_metrics, clock + 1)
           /\ IF update_appends(file, aggregate_metrics)
              THEN /\ clock' = clock + 1
                   /\ appended' = Append(appended,
                          metrics_with_timestamp(aggregate_metrics, clock + 1))
              ELSE UNCHANGED <<clock, appended>>
    /\ last_returned' = << file'.aggregate_metrics >>
    /\ UNCHANGED <<calls, arg, conversation_memories, inflight, started>>
    /\ UNCHANGED <<snapshots, last_response>>
    /\ UNCHANGED <<tracker, conversation_cache>>
    /\ UNCHANGED <<r_in, r_out, r_pc>>
    /\ UNCHANGED <<s_in, s_ranked, s_out, s_pc>>
    /\ UNCHANGED helperVars

Next ==
    \/ \E id \in ConversationIds : \E n \in QuestionTokens :
       \E r \in Requests : ProcessQuestionBegin(id, n, r.context, r.found)
    \/ \E i \in 1..MaxInflight : ProcessQuestionFail(i)
    \/ \E i \in 1..MaxInflight : \E outcome \in AnswerOutcomes :
           ProcessQuestionFinish(i, outcome)
    \/ GetMetrics

Spec == Init /\ [][Next]_vars

\* The calls of process_question alone, with no call of get_metrics.
TurnNext ==
    \/ \E id \in ConversationIds : \E n \in QuestionTokens :
       \E r \in Requests : ProcessQuestionBegin(id, n, r.context, r.found)
    \/ \E i \in 1..MaxInflight : ProcessQuestionFail(i)
    \/ \E i \in 1..MaxInflight : \E outcome \in AnswerOutcomes :
           ProcessQuestionFinish(i, outcome)

SpecTurn == Init /\ [][TurnNext]_vars

(***************************************************************************)
(* Specification SpecFault: the calls of process_question when the         *)
(* collaborators may fail.  A failure is named by the collaborator and the  *)
(* call site at which it raises.                                            *)
(***************************************************************************)
\* The failures before the awaited answer generation: the tokenizer on the
\* question (line 128), the vector search or the embedding of the query
\* inside it (line 155; retrieval.py line 29), the tokenizer on the prompt
\* (line 185).
FaultsBeforeAnswer ==
    { "tokenizer_question", "vector_search", "embedding_query",
      "tokenizer_prompt" }

\* The failures after the answer: the tokenizer on the answer (line 191),
\* the embedding inside calculate_answer_metrics (metrics.py lines 187-188)
\* and inside calculate_context_retention (metrics.py lines 276-277).
FaultsAfterAnswer ==
    { "tokenizer_answer", "embedding_answer", "embedding_retention" }

\* The failures of the metrics persistence inside update_metrics (line 251):
\* the load (metrics_storage.py lines 56-58) or the opening of the file for
\* the save (lines 68-70).
StoreFaults == { "load", "save" }

\* _load_metrics when the load raises: the except branch returns an empty
\* history and an empty aggregate (lines 59-64).
load_failure_metrics == [ metrics_history |-> << >>, aggregate_metrics |-> << >> ]

\* process_question, lines 124-185 and 267-269: a collaborator raises before
\* the answer generation is awaited, and the call re-raises.
ProcessQuestionBeginFails(conversation_id, question_tokens, context, semantic_results, fault) ==
    /\ started < MaxTurns
    /\ fault \in FaultsBeforeAnswer
    /\ LET known    == conversation_known(conversation_id, conversation_memories)
           t1       == track_tokens(tracker, question_tokens)
           t2       == IF known THEN t1
                       ELSE [ t1 EXCEPT !.total_conversations = @ + 1 ]
           results  == hybrid_search(semantic_results, NoEntities, DefaultK)
           t3       == IF results # << >>
                       THEN [ t2 EXCEPT !.successful_retrievals = @ + 1 ]
                       ELSE t2
           relevant == relevant_docs_of_turn(context.relevant_docs, results)
           t4       == tracker_after_retrieval(t3, as_retrieved_docs(results),
                                               relevant, NoK)
           created  == IF known THEN conversation_memories
                       ELSE [ c \in DOMAIN conversation_memories \cup { conversation_id }
                                |-> IF c = conversation_id THEN new_conversation
                                    ELSE conversation_memories[c] ]
       IN  CASE fault = "tokenizer_question" ->
                  UNCHANGED <<tracker, conversation_memories, conversation_cache>>
             [] fault \in { "vector_search", "embedding_query" } ->
                  /\ tracker' = t2
                  /\ conversation_memories' = created
                  /\ UNCHANGED conversation_cache
             [] fault = "tokenizer_prompt" ->
                  /\ tracker' = t4
                  /\ conversation_memories' = created
                  /\ conversation_cache' =
                         cache_after_grouping(conversation_cache,
                             top_k(hybrid_rank(semantic_results, NoEntities),
                                   DefaultK))
    /\ started' = started + 1
    /\ last_response' = << raised_response(fault) >>
    /\ UNCHANGED <<inflight, last_returned, snapshots>>
    /\ UNCHANGED storeVars
    /\ UNCHANGED <<r_in, r_out, r_pc>>
    /\ UNCHANGED <<s_in, s_ranked, s_out, s_pc>>
    /\ UNCHANGED helperVars

\* process_question, lines 189-229 and 267-269: a collaborator raises while
\* the answer is scored, and the call re-raises.
ProcessQuestionFinishFails(i, outcome, fault) ==
    /\ i \in 1..Len(inflight)
    /\ fault \in FaultsAfterAnswer
    /\ fault = "embedding_retention" => inflight[i].chat_history # << >>
    /\ LET call == inflight[i]
           t1   == track_tokens(tracker, outcome.answer_tokens)
           t2   == calculate_rouge_with_context(t1,
                       rouge_scores_of(outcome.rouge_context))
           t3   == calculate_answer_metrics(t2, outcome.answer_tokens,
                       outcome.exact_match, outcome.cos_sim,
                       rouge_scores_of(outcome.rouge_truth))
       IN  tracker' =
               CASE fault = "tokenizer_answer" -> tracker
                 [] fault = "embedding_answer" ->
                      [ t2 EXCEPT !.total_tokens = @ + outcome.answer_tokens ]
                 [] fault = "embedding_retention" -> t3
    /\ inflight' = without(inflight, i)
    /\ last_response' = << raised_response(fault) >>
    /\ UNCHANGED <<conversation_memories, started, last_returned, snapshots>>
    /\ UNCHANGED conversation_cache
    /\ UNCHANGED storeVars
    /\ UNCHANGED <<r_in, r_out, r_pc>>
    /\ UNCHANGED <<s_in, s_ranked, s_out, s_pc>>
    /\ UNCHANGED helperVars

\* process_question, lines 189-265, when the load or the save inside
\* update_metrics raises: _load_metrics and _save_metrics catch the
\* exception and print it, and the call goes on to its return.
ProcessQuestionFinishStoreFault(i, outcome, fault) ==
    /\ i \in 1..Len(inflight)
    /\ fault \in StoreFaults
    /\ LET call == inflight[i]
           id   == call.conversation_id
           t1   == track_tokens(tracker, outcome.answer_tokens)
           t2   == calculate_rouge_with_context(t1,
                       rouge_scores_of(outcome.rouge_context))
           t3   == calculate_answer_metrics(t2, outcome.answer_tokens,
                       outcome.exact_match, outcome.cos_sim,
                       rouge_scores_of(outcome.rouge_truth))
           t4   == calculate_context_retention(t3, call.chat_history,
                                               outcome.retention)
           t5   == track_response_time(t4, outcome.latency)
           t6   == [ t5 EXCEPT !.total_questions = @ + 1 ]
           all_metrics == get_aggregate_metrics(t6)
           data == conversation_memories[id]
           loaded == IF fault = "load" THEN load_failure_metrics ELSE file
       IN  /\ tracker' = t6
           /\ conversation_memories' =
                  [ conversation_memories EXCEPT ![id] =
                      [ memory  |-> data.memory + 1,
                        metrics |-> metrics_updated_with(
                            update_conversation_metrics(data.metrics,
                                                        outcome.latency),
                            all_metrics) ] ]
           /\ IF fault = "save"
              THEN UNCHANGED <<file, clock, appended>>
              ELSE /\ file' = update_metrics(loaded, all_metrics, clock + 1)
                   /\ clock' = clock + 1
                   /\ appended' = Append(appended,
                          metrics_with_timestamp(all_metrics, clock + 1))
           /\ last_returned' = << all_metrics >>
           /\ snapshots' = Append(snapshots, turn_metrics(call, outcome))
    /\ inflight' = without(inflight, i)
    /\ last_response' = << returned_response(fault) >>
    /\ UNCHANGED <<calls, arg, started, conversation_cache>>
    /\ UNCHANGED <<r_in, r_out, r_pc>>
    /\ UNCHANGED <<s_in, s_ranked, s_out, s_pc>>
    /\ UNCHANGED helperVars

FaultNext ==
    \/ \E id \in ConversationIds : \E n \in QuestionTokens :
       \E r \in Requests : ProcessQuestionBegin(id, n, r.context, r.found)
    \/ \E id \in ConversationIds : \E n \in QuestionTokens :
       \E r \in Requests : \E fault \in FaultsBeforeAnswer :
           ProcessQuestionBeginFails(id, n, r.context, r.found, fault)
    \/ \E i \in 1..MaxInflight : ProcessQuestionFail(i)
    \/ \E i \in 1..MaxInflight : \E outcome \in AnswerOutcomes :
           ProcessQuestionFinish(i, outcome)
    \/ \E i \in 1..MaxInflight : \E outcome \in AnswerOutcomes :
       \E fault \in FaultsAfterAnswer :
           ProcessQuestionFinishFails(i, outcome, fault)
    \/ \E i \in 1..MaxInflight : \E outcome \in AnswerOutcomes :
       \E fault \in StoreFaults :
           ProcessQuestionFinishStoreFault(i, outcome, fault)

SpecFault == Init /\ [][FaultNext]_vars


(***************************************************************************)
(* Properties of the history store (SpecStore).                             *)
(***************************************************************************)
\* The step is a call of update_metrics; arg' is its new_metrics.
IsUpdateCall == calls' = calls + 1

\* The call appended exactly one entry {timestamp, ...new} before truncation
\* and replaced the aggregate slot.
AppendedOne ==
    /\ Len(appended') = Len(appended) + 1
    /\ appended'[Len(appended')].metrics = arg'
    /\ SubSeq(appended', 1, Len(appended)) = appended
    /\ LET grown == Append(file.metrics_history, appended'[Len(appended')])
           m     == IF Len(grown) > HistoryCap THEN HistoryCap ELSE Len(grown)
       IN  /\ Len(file'.metrics_history) = m
           /\ \A i \in 1..m :
                  file'.metrics_history[i] = grown[Len(grown) - m + i]
    /\ file'.aggregate_metrics = arg'

\* The call wrote nothing.
WroteNothing == file' = file /\ appended' = appended

Counters ==
    { "total_questions", "successful_retrievals", "total_tokens",
      "total_conversations" }

\* No counter of the aggregate `after` is below its value in `before`.
NotBelow(before, after) == \A c \in Counters : before[c] <= after[c]

\* C3: over process_question and get_metrics calls, no counter of the
\* aggregate decreases: not in the stored aggregate, not from one returned
\* aggregate to the next, not from one appended history entry to the next.
C3_CountersNeverDecrease ==
    [][ /\ NotBelow(file.aggregate_metrics, file'.aggregate_metrics)
        /\ (last_returned # << >> /\ last_returned' # << >>)
               => NotBelow(last_returned[1], last_returned'[1])
        /\ (Len(appended) > 0 /\ Len(appended') > Len(appended))
               => NotBelow(appended[Len(appended)].metrics,
                           appended'[Len(appended')].metrics) ]_vars

(***************************************************************************)
(* Properties of calculate_retrieval_metrics (SpecRetrieval).               *)
(***************************************************************************)
\* The admitted retrieved ids of the call: the doc ids of the results among
\* the first k (all of them when k is not given) whose score is above 0.5,
\* in result order.
Admitted ==
    LET kept == SelectSeq(slice_k(r_in.retrieved_docs, r_in.k),
                          LAMBDA d : d.score > 500)
    IN  [ i \in 1..Len(kept) |-> kept[i].doc_id ]

Relevant == { r_in.relevant_docs[i] : i \in 1..Len(r_in.relevant_docs) }

\* The positions (1-based) of the admitted ids that are relevant.
RelevantPositions == { i \in 1..Len(Admitted) : Admitted[i] \in Relevant }

BothInputsNonEmpty ==
    r_in.retrieved_docs # << >> /\ r_in.relevant_docs # << >>

\* C7: each of precision, recall, f1, ndcg and mrr returned by
\* calculate_retrieval_metrics lies in [0, 1], for every list of results
\* (repeated doc_ids included) and every list of relevant ids.
C7_MetricsInUnitInterval ==
    r_pc = "done" =>
        /\ r_out.precision \in 0..Scale
        /\ r_out.recall \in 0..Scale
        /\ r_out.f1 \in 0..Scale
        /\ r_out.ndcg \in 0..Scale
        /\ r_out.mrr \in 0..Scale

C9_MrrIsReciprocalOfFirstRelevant ==
    ( r_pc = "done" /\ BothInputsNonEmpty )
    => IF RelevantPositions = {}
       THEN r_out.mrr = 0
       ELSE /\ r_out.mrr = Scale \div MinOf(RelevantPositions)
            /\ r_out.mrr # 0

\* C9 witness: the first relevant id is the second admitted id while being
\* the third result, the first result scoring 0.5.
C9_Witness ==
    /\ r_pc = "done"
    /\ BothInputsNonEmpty
    /\ Len(r_in.retrieved_docs) = 3
    /\ r_in.retrieved_docs[1].score <= 500
    /\ RelevantPositions = { 2 }
    /\ r_out.mrr = 500

\* C10: a call whose retrieved list or relevant list is empty returns five
\* zeros and leaves every metric list and counter of the tracker unchanged.
C10_EmptyInputReturnsZerosAndKeepsTracker ==
    [][ ( /\ r_pc = "call"
          /\ r_pc' = "done"
          /\ ~BothInputsNonEmpty )
        => ( r_out' = ZeroRetrievalMetrics /\ tracker' = tracker )
      ]_vars

\* C10 witness: a call with results but no relevant ids returned on a
\* tracker that already held metrics.
C10_Witness ==
    /\ r_pc = "done"
    /\ r_in.retrieved_docs # << >>
    /\ r_in.relevant_docs = << >>
    /\ r_in.retrieved_docs[1].score > 500
    /\ tracker.ndcg # << >>
    /\ r_out = ZeroRetrievalMetrics

(***************************************************************************)
(* Properties of the grouping (SpecGroup) and of hybrid_search (SpecSearch).*)
(***************************************************************************)
DocIdsOf(results) == { results[i].document.doc_id : i \in 1..Len(results) }

\* The results of the grouping's input that belong to one document.
GroupMembers(doc_id) ==
    { x \in ToSet(s_ranked) : x.document.doc_id = doc_id }

\* C4: the list returned by _group_and_contextualize holds at most one
\* result per doc_id, and every doc_id of the input list is in the output.
C4_OneResultPerDocId ==
    s_pc = "done" =>
        /\ \A i \in 1..Len(s_out) : \A j \in 1..Len(s_out) :
               i # j => s_out[i].document.doc_id # s_out[j].document.doc_id
        /\ DocIdsOf(s_ranked) \subseteq DocIdsOf(s_out)

\* C4 witness: three results of two documents were grouped into two.
C4_Witness ==
    /\ s_pc = "done"
    /\ Len(s_ranked) = 3
    /\ Cardinality(DocIdsOf(s_ranked)) = 2
    /\ Len(s_out) = 2

\* C5: the chunk kept for a doc_id is a chunk of that group with the
\* group's maximum score, and when a chunk with is_first_chunk = true is
\* among those with the maximum score, the chunk kept has is_first_chunk.
C5_BestChunkKept ==
    s_pc = "done" =>
        \A i \in 1..Len(s_out) :
            LET kept  == s_out[i]
                group == GroupMembers(kept.document.doc_id)
            IN  /\ kept \in group
                /\ \A y \in group : y.score <= kept.score
                /\ ( \E y \in group : /\ y.score = kept.score
                                      /\ y.document.is_first_chunk )
                   => kept.document.is_first_chunk

\* C5 witness: two chunks of a document tie on the score, the one that is
\* not the first chunk comes first in the input, and the first chunk is kept.
C5_Witness ==
    /\ s_pc = "done"
    /\ Len(s_ranked) >= 2
    /\ s_ranked[1].document.doc_id = s_ranked[2].document.doc_id
    /\ s_ranked[1].score = s_ranked[2].score
    /\ ~s_ranked[1].document.is_first_chunk
    /\ s_ranked[2].document.is_first_chunk
    /\ s_out[1] = s_ranked[2]

\* C6 (as claimed): hybrid_search collapses the 2k candidates to one best
\* chunk per doc_id and returns the k highest-scoring of those, so exactly
\* k results are returned whenever the candidates cover at least k doc_ids.
C6_TopKOfGroupedCandidates ==
    s_pc = "done" =>
        /\ s_out = FirstN(group_and_contextualize(s_ranked), s_in.k)
        /\ Cardinality(DocIdsOf(s_in.semantic_results)) >= s_in.k
           => Len(s_out) = s_in.k

\* C6 (amended): hybrid_search returns the grouping of the k highest-scoring
\* of the 2k candidates: those k candidates are collapsed to one chunk per
\* doc_id, so at most k results are returned, exactly as many as there are
\* distinct doc_ids among the k highest-scoring candidates.
C6_GroupingOfTopKCandidates ==
    s_pc = "done" =>
        LET top == IF Len(s_ranked) <= s_in.k THEN s_ranked
                   ELSE SubSeq(s_ranked, 1, s_in.k)
        IN  /\ Len(s_out) <= s_in.k
            /\ Len(s_out) = Cardinality(DocIdsOf(top))
            /\ DocIdsOf(s_out) = DocIdsOf(top)
            /\ ToSet(s_out) \subseteq ToSet(top)

\* C6 witness: k = 2, four candidates of two documents, and one result: the
\* two best candidates are chunks of one document.
C6_Witness ==
    /\ s_pc = "done"
    /\ s_in.k = 2
    /\ Len(s_in.semantic_results) = 4
    /\ Cardinality(DocIdsOf(s_in.semantic_results)) >= 2
    /\ Len(s_out) = 1

(***************************************************************************)
(* Properties of calculate_answer_metrics (SpecAnswer).                     *)
(***************************************************************************)
\* The call is made and the canonical forms of the two texts are identical.
CanonicallyIdentical ==
    /\ h_pc = "done"
    /\ tokenize_text(h_in.predicted_answer) = tokenize_text(h_in.ground_truth)

\* C11: whenever the canonical forms of the predicted answer and the ground
\* truth are identical, exact_match and answer_accuracy are both 1.0,
\* whatever the cosine similarity and the ROUGE scorer report.
C11_CanonicalMatchIsAccurate ==
    CanonicallyIdentical =>
        /\ h_out.exact_match = Scale
        /\ h_out.answer_accuracy = Scale

(***************************************************************************)
(* Properties of the means of the aggregate (Spec).                         *)
(***************************************************************************)
\* The mean-valued fields of the aggregate, each with the per-turn metric
\* it averages.
MeanFields ==
    { <<"answer_accuracy", "answer_accuracy">>,
      <<"exact_match_rate", "exact_match">>,
      <<"cosine_similarity", "cosine_similarity">>,
      <<"rouge1", "rouge1">>, <<"rouge2", "rouge2">>, <<"rougeL", "rougeL">>,
      <<"retrieval_precision", "precision">>,
      <<"retrieval_recall", "recall">>,
      <<"f1_score", "f1">>, <<"ndcg", "ndcg">>, <<"mrr", "mrr">>,
      <<"response_latency", "response_latency">>,
      <<"context_retention", "context_retention">> }

\* The mean of one per-turn metric over the turns that returned.
MeanOverTurns(key) ==
    safe_mean([ i \in 1..Len(snapshots) |-> snapshots[i][key] ])

\* C12: after n >= 1 successful turns, every mean-valued field of the
\* aggregate is the sum of the per-turn values of the n turns divided by n.
C12_MeansAreOverTurns ==
    snapshots # << >> =>
        \A f \in MeanFields :
            get_aggregate_metrics(tracker)[f[1]] = MeanOverTurns(f[2])

(***************************************************************************)
(* Properties of _extract_financial_entities (SpecEntities).                *)
(***************************************************************************)
\* The list holds no value twice.
NoDuplicates(list) ==
    \A i, j \in 1..Len(list) : list[i] = list[j] => i = j

\* The distinct values of a list, in order of first occurrence.
RECURSIVE FirstOccurrences(_)
FirstOccurrences(list) ==
    IF list = << >> THEN << >>
    ELSE LET front == FirstOccurrences(SubSeq(list, 1, Len(list) - 1))
             last  == list[Len(list)]
         IN  IF last \in ToSet(front) THEN front ELSE Append(front, last)

\* C13: no value stored in currency, percentages or years is also in
\* numbers; in particular a word the year pattern classifies as a year is
\* absent from numbers.
C13_ClassifiedValuesNotInNumbers ==
    h_pc = "done" =>
        /\ \A v \in ToSet(h_out.currency) \cup ToSet(h_out.percentages)
                     \cup ToSet(h_out.years) : v \notin ToSet(h_out.numbers)
        /\ \A w \in ToSet(h_in.text) :
               years_in(w) # << >> => w \notin ToSet(h_out.numbers)

\* C14: each of the five lists holds no value twice, and numbers and
\* percentages list their distinct values in order of first occurrence.
C14_EntityListsDuplicateFree ==
    h_pc = "done" =>
        /\ NoDuplicates(h_out.numbers)
        /\ NoDuplicates(h_out.currency)
        /\ NoDuplicates(h_out.percentages)
        /\ NoDuplicates(h_out.financial_terms)
        /\ NoDuplicates(h_out.years)
        /\ h_out.numbers = FirstOccurrences(extracted_numbers(h_in.text))
        /\ h_out.percentages = FirstOccurrences(extracted_percentages(h_in.text))

(***************************************************************************)
(* Properties of the scores of _hybrid_rank (SpecScore).                    *)
(***************************************************************************)
EntityTypes == { "numbers", "percentages", "financial_terms" }

\* The entities of one type that the document shares with the query.
Shared(entities, type) ==
    ToSet(entities[type]) \cap ToSet(h_in.query_entities[type])

\* 0.5 per shared number, 0.5 per shared percentage, 0.3 per shared term.
WeightedShared(entities) ==
      5 * Cardinality(Shared(entities, "numbers")) * (Scale \div 10)
    + 5 * Cardinality(Shared(entities, "percentages")) * (Scale \div 10)
    + 3 * Cardinality(Shared(entities, "financial_terms")) * (Scale \div 10)

\* C15: the keyword score is 0.5 per shared number and percentage plus 0.3
\* per shared financial term; a document sharing a superset of another's
\* shared entities scores at least as much; the order of the lists and
\* repeated entries make no difference.
C15_KeywordScoreMonotonic ==
    h_pc = "done" =>
        /\ h_out.a.keyword_score = WeightedShared(h_in.entities_a)
        /\ h_out.b.keyword_score = WeightedShared(h_in.entities_b)
        /\ (\A type \in EntityTypes :
                Shared(h_in.entities_b, type) \subseteq Shared(h_in.entities_a, type))
               => h_out.a.keyword_score >= h_out.b.keyword_score
        /\ (\A type \in EntityTypes :
                ToSet(h_in.entities_a[type]) = ToSet(h_in.entities_b[type]))
               => h_out.a.keyword_score = h_out.b.keyword_score

\* C15 witness: document a shares strictly more than b with the query, and
\* lists a shared number twice.
C15_Witness ==
    /\ h_pc = "done"
    /\ h_in.entities_a.numbers = << "5", "5" >>
    /\ h_in.entities_b.numbers = << "7" >>
    /\ h_in.entities_a.financial_terms = << "revenue" >>
    /\ h_out.a.keyword_score > h_out.b.keyword_score
    /\ h_out.b.keyword_score = 0

\* C16: the combined score is never negative, and at equal distance a
\* strictly larger keyword score gives a strictly larger combined score.
C16_CombinedScoreIncreasing ==
    h_pc = "done" =>
        /\ h_out.a.score >= 0
        /\ h_out.b.score >= 0
        /\ (h_in.distance_a = h_in.distance_b
              /\ h_out.a.keyword_score > h_out.b.keyword_score)
               => h_out.a.score > h_out.b.score

\* C16 witness: two candidates at the same distance with different keyword
\* scores.
C16_Witness ==
    /\ h_pc = "done"
    /\ h_in.distance_a = h_in.distance_b
    /\ h_in.distance_a > 0
    /\ h_out.a.keyword_score > h_out.b.keyword_score
    /\ h_out.b.keyword_score > 0

(***************************************************************************)
(* Properties of repeated searches (SpecRerun).                             *)
(***************************************************************************)
\* The position, in the results of the vector search, of the candidate a
\* ranked result was built from.
InputPosition(x) ==
    CHOOSE i \in 1..Len(s_in.semantic_results) :
        s_in.semantic_results[i].document = x.document

\* Two ranked results have the same combined score.
Tied(i, j) == i < j /\ s_ranked[i].score = s_ranked[j].score

MatchedIn(message) ==
    ToSet(findall(enhance_numbers_in, message.content))
    \cup ToSet(findall(enhance_terms_in, message.content))

\* The matches of the last two messages of the history.
MatchedInLastTwo ==
    LET n == Len(h_in.chat_history)
    IN  UNION { MatchedIn(h_in.chat_history[i]) :
                    i \in { j \in 1..n : j > n - 2 } }

\* C18: the query comes back unchanged when the history is empty or its
\* last two messages hold no numeric token and no vocabulary term; else it
\* comes back followed by the matched terms of the last two messages, each
\* exactly once; older messages make no difference.
C18_EnhanceQueryAppendsRecentTerms ==
    h_pc = "done" =>
        LET out == h_out[1]
            n   == Len(h_in.query)
        IN  IF h_in.chat_history = << >> \/ MatchedInLastTwo = {}
            THEN out = h_in.query
            ELSE /\ Len(out) = n + Cardinality(MatchedInLastTwo)
                 /\ SubSeq(out, 1, n) = h_in.query
                 /\ ToSet(SubSeq(out, n + 1, Len(out))) = MatchedInLastTwo

\* C18 witness: three messages; the oldest holds a term the last two do
\* not, the last two hold the same term, and the query grew by one term.
C18_Witness ==
    /\ h_pc = "done"
    /\ Len(h_in.chat_history) = 3
    /\ h_in.chat_history[1].content = << "5%" >>
    /\ h_in.chat_history[2].content = << "Revenue" >>
    /\ h_in.chat_history[3].content = << "Revenue" >>
    /\ Len(h_out[1]) = Len(h_in.query) + 1

(***************************************************************************)
(* Properties of the context-retention scoring (SpecRetention).             *)
(***************************************************************************)
\* The contents of the last three messages of the history, concatenated.
LastThreeContents ==
    LET n == Len(h_in.chat_history)
        content(i) == IF i >= 1 THEN h_in.chat_history[i].content ELSE << >>
    IN  content(n - 2) \o content(n - 1) \o content(n)

\* C19: with an empty chat history the context retention is 1.0 and no
\* text is embedded; with a non-empty one the answer and the concatenation
\* of the last three history contents are embedded, and nothing else.
C19_RetentionEmbedsLastThree ==
    h_pc = "done" =>
        IF h_in.chat_history = << >>
        THEN /\ h_out.context_retention = Scale
             /\ h_out.embed_calls = << >>
        ELSE h_out.embed_calls = << h_in.current_answer, LastThreeContents >>

\* C19 witness: a history of four messages; the oldest has a content that
\* is not embedded.
C19_Witness ==
    /\ h_pc = "done"
    /\ Len(h_in.chat_history) = 4
    /\ h_in.chat_history[1].content = << "5%" >>
    /\ h_out.embed_calls[2] = << "growth", "sales" >>

\* C19 witness, empty history: the turn is scored 1.0 without an embedding.
C19_WitnessEmptyHistory ==
    /\ h_pc = "done"
    /\ h_in.chat_history = << >>
    /\ h_out.context_retention = Scale

(***************************************************************************)
(* Properties of a turn whose ROUGE scorer raises (SpecTurn).               *)
(***************************************************************************)
\* The outcomes in which the ROUGE scorer raises at both scorings.
RougeRaises == { o \in AnswerOutcomes : o.rouge_context = << >> /\ o.rouge_truth = << >> }

\* The step is the rest of a turn whose ROUGE scorer raised: the call
\* returns, the tracker gains a zero per ROUGE list and per scoring, and
\* the other answer metrics of the turn are recorded.
RougeFailureIsAbsorbed(i, o) ==
    ProcessQuestionFinish(i, o) =>
        /\ last_returned' # << >>
        /\ Len(snapshots') = Len(snapshots) + 1
        /\ tracker'.rouge1 = tracker.rouge1 \o << 0, 0 >>
        /\ tracker'.rouge2 = tracker.rouge2 \o << 0, 0 >>
        /\ tracker'.rougeL = tracker.rougeL \o << 0, 0 >>
        /\ tracker'.cosine_similarity = Append(tracker.cosine_similarity, o.cos_sim)
        /\ tracker'.exact_match =
               Append(tracker.exact_match, IF o.exact_match THEN Scale ELSE 0)
        /\ tracker'.answer_accuracy =
               Append(tracker.answer_accuracy, IF o.cos_sim > 800 THEN Scale ELSE 0)
        /\ tracker'.total_questions = tracker.total_questions + 1

\* C20: when the ROUGE scorer raises, the turn runs on to its return:
\* rouge1, rouge2 and rougeL are 0.0 for each scoring that raised, the
\* remaining answer metrics are recorded and the call returns.
C20_RougeFailureDoesNotFailTurn ==
    [][\A i \in 1..Len(inflight) : \A o \in RougeRaises :
         RougeFailureIsAbsorbed(i, o)]_vars

\* C20 witness: a turn whose ROUGE scorer raised has returned; its zeros and
\* its cosine similarity are in the tracker.
C20_Witness ==
    /\ Len(snapshots) >= 1
    /\ last_returned # << >>
    /\ snapshots[Len(snapshots)].rouge1 = 0
    /\ snapshots[Len(snapshots)].rouge2 = 0
    /\ snapshots[Len(snapshots)].rougeL = 0
    /\ snapshots[Len(snapshots)].cosine_similarity = 500
    /\ Len(tracker.rouge1) >= 2
    /\ tracker.rouge1[Len(tracker.rouge1)] = 0
    /\ tracker.cosine_similarity[Len(tracker.cosine_similarity)] = 500

(***************************************************************************)
(* Properties of the failures of collaborators (SpecFault).                 *)
(***************************************************************************)
\* C21: the response to a call of process_question during which a
\* collaborator failed is a failure (status 500): no failure is swallowed
\* so that the request appears to succeed.
C21_FailuresAreSurfaced ==
    \A response \in ToSet(last_response) :
        response.fault # "none" => response.status = 500

(***************************************************************************)
(* Properties of concurrent calls of process_question (SpecTurn).           *)
(***************************************************************************)
\* The response times of the turns of a conversation that returned, in
\* order of return.
ResponseTimesOf(id) ==
    LET turns == SelectSeq(snapshots, LAMBDA turn : turn.conversation_id = id)
    IN  [ i \in 1..Len(turns) |-> turns[i].response_latency ]

\* average is the arithmetic mean of the values, up to the rounding of the
\* thousandths in which times are counted: each of the n - 1 updates of the
\* running mean after the first rounds down by less than one thousandth.
IsMeanOf(average, values) ==
    LET n == Len(values)
        lost == SumSeq(values) - n * average
    IN  lost >= 0 /\ 2 * lost <= n * (n - 1)

\* C22: once every call of process_question has completed, no update is
\* lost, however the calls interleaved: total_questions is the number of
\* completed turns, and each conversation's questions_asked and
\* average_response_time are the number and the mean response time of its
\* completed turns.
C22_NoLostUpdate ==
    inflight = << >> =>
        /\ tracker.total_questions = Len(snapshots)
        /\ \A id \in DOMAIN conversation_memories :
               LET metrics == conversation_memories[id].metrics
               IN  /\ metrics.questions_asked = Len(ResponseTimesOf(id))
                   /\ metrics.questions_asked > 0 =>
                          IsMeanOf(metrics.average_response_time,
                                   ResponseTimesOf(id))

\* C22 witness: two turns of one conversation with different response
\* times and a turn of the other conversation have all completed.
C22_Witness ==
    /\ inflight = << >>
    /\ ResponseTimesOf("a") = << 3000, 1000 >>
    /\ Len(ResponseTimesOf("b")) = 1
    /\ conversation_memories["a"].metrics.average_response_time = 2000

(***************************************************************************)
(* Properties of a turn whose answer generation fails (SpecTurn).           *)
(***************************************************************************)
\* The tokens tracked for every call started, before its answer: those of
\* its question and of its prompt.
TokensBeforeAnswers ==
    LET q == CHOOSE n \in QuestionTokens : TRUE
    IN  started * (q + prompt_tokens_of(q))

\* The tokens tracked for the answers of the turns that returned: twice
\* the tokens of each answer.
TokensOfAnswers ==
    2 * SumSeq([ i \in 1..Len(snapshots) |-> snapshots[i].response_tokens ])

\* The step is the failure of the answer generation of the i-th call in
\* flight: the call raises; the questions counted, the conversations and
\* the stored history stay as they are, and so do the counters and the
\* retrieval metric lists that the call updated before it awaited.
FailureLeavesUpdates(i) ==
    ProcessQuestionFail(i) =>
        /\ last_response' = << raised_response("answer_generation") >>
        /\ tracker'.total_questions = tracker.total_questions
        /\ conversation_memories' = conversation_memories
        /\ file' = file
        /\ tracker'.total_tokens = tracker.total_tokens
        /\ tracker'.successful_retrievals = tracker.successful_retrievals
        /\ tracker'.total_conversations = tracker.total_conversations
        /\ tracker'.retrieval_precision = tracker.retrieval_precision
        /\ tracker'.retrieval_recall = tracker.retrieval_recall
        /\ tracker'.f1_score = tracker.f1_score
        /\ tracker'.ndcg = tracker.ndcg
        /\ tracker'.mrr = tracker.mrr

\* C23: there is no rollback when the answer generation of a turn fails:
\* the failed turn is not counted as a question, and the tokens of its
\* question and prompt, its conversation and its retrieval metrics stay
\* recorded, so that total_tokens covers every call started and
\* total_questions only the calls that returned.
C23_NoRollbackOnFailure ==
    /\ [](/\ tracker.total_questions = Len(snapshots)
          /\ tracker.total_tokens = TokensBeforeAnswers + TokensOfAnswers)
    /\ [][\A i \in 1..Len(inflight) : FailureLeavesUpdates(i)]_vars

\* C23 witness: the only call started, a follow-up question of a new
\* conversation that found documents, has failed at the answer generation.
C23_Witness ==
    /\ started = 1
    /\ inflight = << >>
    /\ last_response = << raised_response("answer_generation") >>
    /\ tracker.total_questions = 0
    /\ tracker.total_tokens = 3
    /\ tracker.successful_retrievals = 1
    /\ tracker.total_conversations = 1
    /\ Len(tracker.retrieval_precision) = 1
    /\ \E id \in DOMAIN conversation_memories :
           /\ conversation_memories[id].metrics.questions_asked = 0
           /\ conversation_memories[id].memory = 0
    /\ file.metrics_history = << >>

(***************************************************************************)
(* Properties of the default relevant documents (SpecEvaluate).             *)
(***************************************************************************)
\* The positions of the results that score above 0.7.
AboveRelevance ==
    { i \in 1..Len(h_out.search_results) :
        h_out.search_results[i].score > 700 }

DocIdsAt(positions) ==
    { h_out.search_results[i].document.doc_id : i \in positions }

AboveAdmission ==
    { i \in 1..Len(h_out.search_results) :
        h_out.search_results[i].score > 500 }

C27_WitnessNothingRelevant ==
    /\ h_pc = "done"
    /\ h_in.relevant_docs = << >>
    /\ Len(h_out.search_results) = 3
    /\ AboveRelevance = {}

(***************************************************************************)
(* Properties of the order of the results of hybrid_search (SpecSearch).    *)
(***************************************************************************)
\* C26: the list hybrid_search returns, after the truncation to the top k
\* and the grouping, is in order of non-increasing combined score.
C26_ResultsOrderedByScore ==
    s_pc = "done" =>
        \A i \in 1..Len(s_out) : \A j \in 1..Len(s_out) :
            i < j => s_out[i].score >= s_out[j].score

\* C26 witness: a call returned two results of different scores, the
\* first of which the vector search had not reported first, after the
\* truncation dropped a candidate.
C26_Witness ==
    /\ s_pc = "done"
    /\ Len(s_out) = 2
    /\ s_out[1].score > s_out[2].score
    /\ s_out[1].document # s_in.semantic_results[1].document
    /\ Len(s_in.semantic_results) > s_in.k

(***************************************************************************)
(* Properties of the creation of conversations (SpecTurn).                  *)
(***************************************************************************)
\* C25: the state of a conversation is created once per conversation_id
\* and never removed: total_conversations is always the number of entries
\* of the conversation map, failed turns and concurrent first questions
\* for one id included, and no step removes an entry.
C25_ConversationsCreatedOnce ==
    /\ [](tracker.total_conversations =
             Cardinality(DOMAIN conversation_memories))
    /\ [][DOMAIN conversation_memories \subseteq
              DOMAIN conversation_memories']_vars

\* C25 witness: a first question for an id failed, and two more questions
\* for the same id are in flight together; one conversation exists.
C25_Witness ==
    /\ last_response = << raised_response("answer_generation") >>
    /\ Len(inflight) = 2
    /\ inflight[1].conversation_id = inflight[2].conversation_id
    /\ tracker.total_questions = 0
    /\ tracker.total_conversations = 1

(***************************************************************************)
(* Properties of the tokens and lists a turn records (SpecTurn).            *)
(***************************************************************************)
\* The step starts a call: the tokens of its question and of its prompt
\* are added to total_tokens.
BeginCountsQuestionAndPrompt ==
    started' = started + 1 =>
        \E q \in QuestionTokens :
            tracker'.total_tokens =
                tracker.total_tokens + q + prompt_tokens_of(q)

\* The step returns a turn: the tokens of its answer are added twice, two
\* values are appended to every ROUGE list and one to every other list of
\* answer metrics.
FinishCountsAnswerTwice ==
    Len(snapshots') = Len(snapshots) + 1 =>
        /\ tracker'.total_tokens = tracker.total_tokens
               + 2 * snapshots'[Len(snapshots')].response_tokens
        /\ \A name \in { "rouge1", "rouge2", "rougeL" } :
               Len(tracker'[name]) = Len(tracker[name]) + 2
        /\ \A name \in { "answer_accuracy", "exact_match",
                          "cosine_similarity" } :
               Len(tracker'[name]) = Len(tracker[name]) + 1

\* C30: a successful turn adds to total_tokens the tokens of its question
\* and of its prompt and twice the tokens of its answer, and appends two
\* values to each ROUGE list but one to every other answer-metric list.
C30_AnswerCountedTwice ==
    /\ [][BeginCountsQuestionAndPrompt /\ FinishCountsAnswerTwice]_vars
    /\ [](\A name \in { "rouge1", "rouge2", "rougeL" } :
             /\ Len(tracker[name]) = 2 * Len(snapshots)
             /\ Len(tracker.answer_accuracy) = Len(snapshots)
             /\ Len(tracker.exact_match) = Len(snapshots)
             /\ Len(tracker.cosine_similarity) = Len(snapshots))

\* C30 witness: the only call started returned an answer of two tokens to
\* a question of one token and a prompt of two: seven tokens are counted,
\* and each ROUGE list holds two values.
C30_Witness ==
    /\ started = 1
    /\ Len(snapshots) = 1
    /\ snapshots[1].response_tokens = 2
    /\ tracker.total_tokens = 7
    /\ Len(tracker.rouge1) = 2
    /\ Len(tracker.answer_accuracy) = 1

(***************************************************************************)
(* Properties of the stored aggregate and history (SpecStore).              *)
(***************************************************************************)
\* C29: whenever the stored history is not empty, the stored aggregate is
\* the last history entry without its timestamp, and no two adjacent
\* history entries carry equal aggregates; only the first entry may equal
\* the initial all-zero aggregate that preceded it.
C29_AggregateIsLastEntry ==
    LET h == file.metrics_history
    IN  h # << >> =>
            /\ file.aggregate_metrics = h[Len(h)].metrics
            /\ \A i \in 1..(Len(h) - 1) : h[i].metrics # h[i + 1].metrics

\* C29 witness: the first entry equals the initial aggregate, later calls
\* appended other aggregates and one call repeated the stored aggregate,
\* and the oldest entries were dropped.
C29_Witness ==
    /\ Len(appended) > 100
    /\ appended[1].metrics = InitialAggregate
    /\ Len(appended) < calls
    /\ file.aggregate_metrics = appended[Len(appended)].metrics
    /\ file.metrics_history[1] # appended[1]

(***************************************************************************)
(* Properties of the history entries of the turns (Spec, SpecFault).        *)
(***************************************************************************)
\* The step ends a call of process_question that had awaited its answer.
CallEnds == Len(inflight') < Len(inflight)

\* The step is a call of process_question that raised before it awaited.
CallEndsEarly == started' = started + 1 /\ inflight' = inflight

\* The stored history gained exactly the entry e, before truncation.
HistoryGained(e) ==
    /\ file'.metrics_history =
           truncate_history(Append(file.metrics_history, e))
    /\ file'.aggregate_metrics = e.metrics

\* C28: every process_question that returns appends exactly one entry to
\* the stored metrics history (before truncation), whatever calls came
\* before it, its aggregate counting more questions than the stored one;
\* a process_question that fails appends none.
C28_SuccessfulTurnAppendsOne ==
    [][ /\ (CallEnds /\ last_response'[1].status = 200) =>
               /\ Len(appended') = Len(appended) + 1
               /\ HistoryGained(appended'[Len(appended')])
               /\ appended'[Len(appended')].metrics.total_questions >
                      file.aggregate_metrics.total_questions
        /\ ((CallEnds \/ CallEndsEarly) /\ last_response'[1].status = 500) =>
               /\ appended' = appended
               /\ file' = file
      ]_vars

====
